---------------------------- MODULE Spec2Model ----------------------------
(***************************************************************************)
(* Quote anchoring and annotation layout of the feedback page              *)
(* (src/app/page.tsx): normalizeText, findBestSubstringMatch, the          *)
(* placement loop and the final sort of the annotation list.               *)
(*                                                                         *)
(* A text is a sequence of characters; a character is a one-element        *)
(* string.  Glyphs outside ASCII are written by name: "HELLIP" (U+2026),   *)
(* "LSQUO"/"RSQUO" (U+2018/19), "LDQUO"/"RDQUO" (U+201C/1D), "NDASH"       *)
(* (U+2013), "MDASH" (U+2014).  Each is one UTF-16 unit, as in the source. *)
(* Offsets are 0-based as in JavaScript; sequences are 1-based.            *)
(***************************************************************************)
EXTENDS Integers, Sequences, FiniteSets, TLC

null == [isNull |-> TRUE]

Min(a, b) == IF a <= b THEN a ELSE b

Max(a, b) == IF a >= b THEN a ELSE b

(* ---------------------------------------------------------------------- *)
(* String primitives of the JavaScript runtime                            *)
(* ---------------------------------------------------------------------- *)

LowerOf ==
    [c \in {"A","B","C","D","E","F","G","H","I","J","K","L","M","N","O","P","Q","R","S","T",
            "U","V","W","X","Y","Z"} |->
        CASE c = "A" -> "a" [] c = "B" -> "b" [] c = "C" -> "c" [] c = "D" -> "d"
          [] c = "E" -> "e" [] c = "F" -> "f" [] c = "G" -> "g" [] c = "H" -> "h"
          [] c = "I" -> "i" [] c = "J" -> "j" [] c = "K" -> "k" [] c = "L" -> "l"
          [] c = "M" -> "m" [] c = "N" -> "n" [] c = "O" -> "o" [] c = "P" -> "p"
          [] c = "Q" -> "q" [] c = "R" -> "r" [] c = "S" -> "s" [] c = "T" -> "t"
          [] c = "U" -> "u" [] c = "V" -> "v" [] c = "W" -> "w" [] c = "X" -> "x"
          [] c = "Y" -> "y" [] c = "Z" -> "z"]

LowerChar(c) == IF c \in DOMAIN LowerOf THEN LowerOf[c] ELSE c

toLowerCase(text) == [i \in 1..Len(text) |-> LowerChar(text[i])]

(* the characters the regular expression class \s and trim() treat as space *)
IsWhitespace(c) == c \in {" ", "\n", "\t", "\r"}

RECURSIVE Flatten(_)
Flatten(parts) ==
    IF Len(parts) = 0 THEN <<>>
    ELSE IF Len(parts) = 1 THEN parts[1]
    ELSE LET m == Len(parts) \div 2
         IN  Flatten(SubSeq(parts, 1, m)) \o Flatten(SubSeq(parts, m + 1, Len(parts)))

(* String.prototype.substring: both arguments clamped to [0, length], swapped
   when the first exceeds the second *)
substring(text, from, to) ==
    LET a == Min(Max(from, 0), Len(text))
        b == Min(Max(to, 0), Len(text))
    IN  SubSeq(text, Min(a, b) + 1, Max(a, b))

substringFrom(text, from) == substring(text, from, Len(text))

OccursAt(text, pat, i) ==
    /\ i >= 0
    /\ i + Len(pat) <= Len(text)
    /\ \A k \in 1..Len(pat) : text[i + k] = pat[k]

(* String.prototype.indexOf: offset of the first occurrence, -1 if none *)
indexOf(text, pat) ==
    LET hits == {i \in 0..(Len(text) - Len(pat)) : OccursAt(text, pat, i)}
    IN  IF hits = {} THEN -1 ELSE CHOOSE i \in hits : \A j \in hits : i <= j

(* String.prototype.trim *)
trim(text) ==
    IF \A i \in 1..Len(text) : IsWhitespace(text[i]) THEN <<>>
    ELSE LET first == CHOOSE i \in 1..Len(text) :
                          /\ ~IsWhitespace(text[i])
                          /\ \A j \in 1..(i - 1) : IsWhitespace(text[j])
             last  == CHOOSE i \in 1..Len(text) :
                          /\ ~IsWhitespace(text[i])
                          /\ \A j \in (i + 1)..Len(text) : IsWhitespace(text[j])
         IN  SubSeq(text, first, last)

(* text.split(/\s+/): the maximal runs of non-whitespace, with an empty first
   (last) piece when the text starts (ends) with whitespace *)
splitWhitespace(text) ==
    LET n == Len(text)
        starts == {i \in 1..n : ~IsWhitespace(text[i]) /\ (i = 1 \/ IsWhitespace(text[i - 1]))}
        EndOf(s) == CHOOSE e \in s..n :
                        /\ \A j \in s..e : ~IsWhitespace(text[j])
                        /\ (e = n \/ IsWhitespace(text[e + 1]))
        pieces == [i \in 1..n |-> IF i \in starts THEN <<SubSeq(text, i, EndOf(i))>> ELSE <<>>]
        lead  == IF n > 0 /\ IsWhitespace(text[1]) THEN <<(<<>>)>> ELSE <<>>
        trail == IF n > 0 /\ IsWhitespace(text[n]) /\ starts # {} THEN <<(<<>>)>> ELSE <<>>
    IN  IF n = 0 THEN <<(<<>>)>>
        ELSE IF starts = {} THEN <<(<<>>), (<<>>)>>
        ELSE lead \o Flatten(pieces) \o trail

(* ---------------------------------------------------------------------- *)
(* normalizeText                                                          *)
(* ---------------------------------------------------------------------- *)

ReplaceQuotesAndDashes(c) ==
    CASE c \in {"LSQUO", "RSQUO"} -> "'"
      [] c \in {"LDQUO", "RDQUO"} -> "\""
      [] c \in {"NDASH", "MDASH"} -> "-"
      [] OTHER -> c

ReplaceEllipsis(text) ==
    Flatten([i \in 1..Len(text) |->
                IF text[i] = "HELLIP" THEN <<".", ".", ".">> ELSE <<text[i]>>])

(* every whitespace character made a space, runs kept at their length *)
CollapseWhitespaceEach(text) ==
    [i \in 1..Len(text) |-> IF IsWhitespace(text[i]) THEN " " ELSE text[i]]

CollapseWhitespace(text) ==
    Flatten([i \in 1..Len(text) |->
                IF ~IsWhitespace(text[i]) THEN <<text[i]>>
                ELSE IF i = 1 \/ ~IsWhitespace(text[i - 1]) THEN <<" ">>
                ELSE <<>>])

normalizeText(text) ==
    IF Len(text) = 0 THEN <<>>
    ELSE LET lowered  == toLowerCase(text)
             straight == [i \in 1..Len(lowered) |-> ReplaceQuotesAndDashes(lowered[i])]
         IN  trim(CollapseWhitespace(ReplaceEllipsis(straight)))

(* ---------------------------------------------------------------------- *)
(* Array.prototype.sort and JavaScript numbers                            *)
(* ---------------------------------------------------------------------- *)

(* Array.prototype.sort is stable and treats a comparator result of NaN as +0;
   cmp[j, i] is the comparator's result on elements j and i, already passed
   through that rule.  Element i lands after every element that compares below
   it and after every earlier element that compares equal to it. *)
ArraySort(arr, cmp) ==
    LET n == Len(arr)
        Rank(i) == Cardinality({j \in 1..n : cmp[j, i] < 0 \/ (cmp[j, i] = 0 /\ j < i)})
    IN  [k \in 1..n |-> arr[CHOOSE i \in 1..n : Rank(i) = k - 1]]

(* a JavaScript number: a finite integer, Infinity, -Infinity or NaN *)
Num(v) == [kind |-> "finite", val |-> v]

Infinity == [kind |-> "Infinity", val |-> 0]

NegInfinity == [kind |-> "-Infinity", val |-> 0]

NaN == [kind |-> "NaN", val |-> 0]

(* a - b on JavaScript numbers *)
Subtract(a, b) ==
    CASE a.kind = "NaN" \/ b.kind = "NaN" -> NaN
      [] a.kind = "finite" /\ b.kind = "finite" -> Num(a.val - b.val)
      [] a.kind = "finite" /\ b.kind = "Infinity" -> NegInfinity
      [] a.kind = "finite" /\ b.kind = "-Infinity" -> Infinity
      [] a.kind = b.kind -> NaN
      [] OTHER -> a

(* the sign SortCompare takes from a comparator result: NaN counts as +0 *)
SortCompare(v) ==
    CASE v.kind = "NaN" -> 0
      [] v.kind = "Infinity" -> 1
      [] v.kind = "-Infinity" -> -1
      [] OTHER -> v.val

(* ---------------------------------------------------------------------- *)
(* Regular expressions built by findBestSubstringMatch                    *)
(* ---------------------------------------------------------------------- *)

RegExpMetaChars == {".", "*", "+", "?", "^", "$", "{", "}", "(", ")", "|", "[", "]", "\\"}

(* the words put into the pattern as they are *)
escapeRegExpNone(word) == word

(* word.replace(/[.*+?^${}()|[\]\\]/g, '\\$&') *)
escapeRegExp(word) ==
    Flatten([i \in 1..Len(word) |->
                IF word[i] \in RegExpMetaChars THEN <<"\\", word[i]>> ELSE <<word[i]>>])

(* Array.prototype.join *)
RECURSIVE join(_, _)
join(parts, sep) ==
    IF Len(parts) = 0 THEN <<>>
    ELSE IF Len(parts) = 1 THEN parts[1]
    ELSE parts[1] \o sep \o join(Tail(parts), sep)

WhitespacePlus == <<"\\", "s", "+">>

(* new RegExp(source, "i") throws a SyntaxError: the scan of source from
   character i on, inside depth open groups, meets a quantifier with nothing
   to repeat, a group or a class that is not closed, a closing parenthesis
   without a group, or a backslash at the end. last is "atom" after something
   a quantifier can repeat, "quantifier" after a quantifier and "none" at
   the start of the pattern, of a group or of an alternative *)
RECURSIVE ThrowsSyntaxError(_, _, _, _)
ThrowsSyntaxError(source, i, depth, last) ==
    IF i > Len(source) THEN depth # 0
    ELSE LET c == source[i]
         IN  IF c = "\\"
             THEN i = Len(source) \/ ThrowsSyntaxError(source, i + 2, depth, "atom")
             ELSE IF c \in {"*", "+"}
             THEN last # "atom" \/ ThrowsSyntaxError(source, i + 1, depth, "quantifier")
             ELSE IF c = "?"
             THEN last = "none" \/ ThrowsSyntaxError(source, i + 1, depth,
                                       IF last = "atom" THEN "quantifier" ELSE "none")
             ELSE IF c = "("
             THEN ThrowsSyntaxError(source, i + 1, depth + 1, "none")
             ELSE IF c = ")"
             THEN depth = 0 \/ ThrowsSyntaxError(source, i + 1, depth - 1, "atom")
             ELSE IF c = "["
             THEN LET closes == {j \in (i + 1)..Len(source) :
                                    source[j] = "]" /\ source[j - 1] # "\\"}
                  IN  closes = {} \/
                      ThrowsSyntaxError(source, (CHOOSE j \in closes : \A k \in closes : j <= k) + 1,
                                        depth, "atom")
             ELSE IF c \in {"|", "^", "$"}
             THEN ThrowsSyntaxError(source, i + 1, depth, "none")
             ELSE ThrowsSyntaxError(source, i + 1, depth, "atom")

IsMalformedRegExp(source) == ThrowsSyntaxError(source, 1, 0, "none")

(* new RegExp(source, "i") for the sources the matcher builds: "\s+" is one or
   more whitespace characters, a backslash followed by any other character is
   that character, and every other character stands for itself *)
RECURSIVE CompileRegExp(_)
CompileRegExp(source) ==
    IF Len(source) = 0 THEN <<>>
    ELSE IF Len(source) >= 3 /\ SubSeq(source, 1, 3) = WhitespacePlus
         THEN <<[ws |-> TRUE, ch |-> " "]>> \o CompileRegExp(SubSeq(source, 4, Len(source)))
    ELSE IF source[1] = "\\" /\ Len(source) >= 2
         THEN <<[ws |-> FALSE, ch |-> source[2]]>> \o CompileRegExp(SubSeq(source, 3, Len(source)))
    ELSE <<[ws |-> FALSE, ch |-> source[1]]>> \o CompileRegExp(Tail(source))

(* the compiled pattern, from atom k on, matches text at offset p (flag "i":
   letters compare without case) *)
RECURSIVE MatchesFrom(_, _, _, _)
MatchesFrom(atoms, k, text, p) ==
    IF k > Len(atoms) THEN TRUE
    ELSE IF atoms[k].ws
         THEN \E r \in 1..(Len(text) - p) :
                 /\ \A j \in 1..r : IsWhitespace(text[p + j])
                 /\ MatchesFrom(atoms, k + 1, text, p + r)
    ELSE /\ p < Len(text)
         /\ LowerChar(text[p + 1]) = LowerChar(atoms[k].ch)
         /\ MatchesFrom(atoms, k + 1, text, p + 1)

(* text.match(regex).index: offset of the leftmost match, -1 for no match *)
matchIndex(text, atoms) ==
    LET hits == {p \in 0..Len(text) : MatchesFrom(atoms, 1, text, p)}
    IN  IF hits = {} THEN -1 ELSE CHOOSE p \in hits : \A q \in hits : p <= q

(* ---------------------------------------------------------------------- *)
(* findBestSubstringMatch                                                 *)
(* ---------------------------------------------------------------------- *)

MinQuoteLength == 10

ChunkThreshold == 50

ChunkLength == 30

HalfChunkLength == 15

ChunkPadding == 20

MinWordLength == 3

WindowSize == 3

SequencePadding == 20

MinSignificantLength == 5

WordPadding == 10

ChunkSimilarity == 90

SequenceSimilarity == 85

WordSimilarity == 70

MatchResult(haystack, startIdx, endIdx, sim) ==
    [startIndex |-> startIdx, endIndex |-> endIdx,
     matchedText |-> substring(haystack, startIdx, endIdx), similarity |-> sim]

(* the beginning, middle and end chunk of the normalized quote *)
Chunks(needleNormalized) ==
    LET n == Len(needleNormalized)
    IN  << substring(needleNormalized, 0, ChunkLength),
           substring(needleNormalized, (n \div 2) - HalfChunkLength, (n \div 2) + HalfChunkLength),
           substringFrom(needleNormalized, n - ChunkLength) >>

CompareIdx(a, b) == a.idx - b.idx

(* the chunks found in the normalized haystack, in the order start, middle, end *)
ChunkLocationsUnsorted(chunks, haystackNormalized) ==
    Flatten([c \in 1..Len(chunks) |->
                LET idx == indexOf(haystackNormalized, chunks[c])
                IN  IF idx >= 0 THEN <<[chunk |-> chunks[c], idx |-> idx]>> ELSE <<>>])

(* the chunks found in the normalized haystack, earliest first *)
ChunkLocations(chunks, haystackNormalized) ==
    LET found == Flatten([c \in 1..Len(chunks) |->
                    LET idx == indexOf(haystackNormalized, chunks[c])
                    IN  IF idx >= 0 THEN <<[chunk |-> chunks[c], idx |-> idx]>> ELSE <<>>])
    IN  ArraySort(found, [a, b \in 1..Len(found) |-> CompareIdx(found[a], found[b])])

ChunkMatch(needle, haystack, needleNormalized, haystackNormalized) ==
    LET n                  == Len(needleNormalized)
        chunks             == Chunks(needleNormalized)
        locations          == ChunkLocations(chunks, haystackNormalized)
        firstChunk         == locations[1]
        estimatedStartIndex ==
            IF firstChunk.chunk = chunks[1] THEN firstChunk.idx
            ELSE IF firstChunk.chunk = chunks[2]
                 THEN Max(0, firstChunk.idx - (n \div 2) + HalfChunkLength)
            ELSE Max(0, firstChunk.idx - n + ChunkLength)
        estimatedEndIndex ==
            Min(Len(haystack), estimatedStartIndex + Len(needle) + ChunkPadding)
    IN  IF n > ChunkThreshold /\ Len(locations) > 0
        THEN MatchResult(haystack, estimatedStartIndex, estimatedEndIndex, ChunkSimilarity)
        ELSE null

IsLongWord(w) == Len(w) > MinWordLength

(* needle.split(/\s+/).filter(w => w.length > 3) *)
Words(needle) == SelectSeq(splitWhitespace(needle), IsLongWord)

(* the pattern source for the window of three words starting at word i (0-based) *)
WordSeqSource(words, i) ==
    LET window == SubSeq(words, i + 1, i + WindowSize)
    IN  join([k \in 1..Len(window) |-> escapeRegExp(window[k])], WhitespacePlus)

RECURSIVE WordSequenceFrom(_, _, _, _, _)
WordSequenceFrom(words, i, needle, haystack, haystackNormalized) ==
    LET wordSeq  == WordSeqSource(words, i)
        index    == matchIndex(haystackNormalized, CompileRegExp(wordSeq))
        startIdx == Max(0, index - SequencePadding)
        endIdx   == Min(Len(haystackNormalized), index + Len(needle) + SequencePadding)
    IN  IF i > Len(words) - WindowSize THEN null
        ELSE IF IsMalformedRegExp(wordSeq)   \* catch (e) { continue; }
             THEN WordSequenceFrom(words, i + 1, needle, haystack, haystackNormalized)
        ELSE IF index >= 0 THEN MatchResult(haystack, startIdx, endIdx, SequenceSimilarity)
        ELSE WordSequenceFrom(words, i + 1, needle, haystack, haystackNormalized)

(* the word-sequence strategy without its first window *)
WordSequenceMatchFromSecond(needle, haystack, haystackNormalized) ==
    LET words == Words(needle)
    IN  IF Len(words) >= WindowSize
        THEN WordSequenceFrom(words, 1, needle, haystack, haystackNormalized)
        ELSE null

WordSequenceMatch(needle, haystack, haystackNormalized) ==
    LET words == Words(needle)
    IN  IF Len(words) >= WindowSize
        THEN WordSequenceFrom(words, 0, needle, haystack, haystackNormalized)
        ELSE null

IsSignificantWord(w) == Len(w) > MinSignificantLength

CompareLengthDesc(a, b) == Len(b) - Len(a)

(* words.filter(w => w.length > 5).sort((a, b) => b.length - a.length) *)
SignificantWords(needle) ==
    LET long == SelectSeq(Words(needle), IsSignificantWord)
    IN  ArraySort(long, [a, b \in 1..Len(long) |-> CompareLengthDesc(long[a], long[b])])

RECURSIVE SingleWordFrom(_, _, _, _, _)
SingleWordFrom(significantWords, k, needle, haystack, haystackNormalized) ==
    LET escapedWord == escapeRegExp(toLowerCase(significantWords[k]))
        idx      == indexOf(haystackNormalized, escapedWord)
        startIdx == Max(0, idx - WordPadding)
        endIdx   == Min(Len(haystackNormalized), idx + Len(needle) + WordPadding)
    IN  IF k > Len(significantWords) THEN null
        ELSE IF idx >= 0 THEN MatchResult(haystack, startIdx, endIdx, WordSimilarity)
        ELSE SingleWordFrom(significantWords, k + 1, needle, haystack, haystackNormalized)

SingleWordMatch(needle, haystack, haystackNormalized) ==
    SingleWordFrom(SignificantWords(needle), 1, needle, haystack, haystackNormalized)

(* the matcher without the minimum quote length *)
findBestSubstringMatchAnyLength(needle, haystack) ==
    LET needleNormalized   == normalizeText(needle)
        haystackNormalized == normalizeText(haystack)
        byChunk == ChunkMatch(needle, haystack, needleNormalized, haystackNormalized)
        bySeq   == WordSequenceMatch(needle, haystack, haystackNormalized)
    IN  IF byChunk # null THEN byChunk
        ELSE IF bySeq # null THEN bySeq
        ELSE SingleWordMatch(needle, haystack, haystackNormalized)

(* the matcher trying the word sequence before the chunks *)
findBestSubstringMatchSequenceFirst(needle, haystack) ==
    IF Len(needle) < MinQuoteLength THEN null
    ELSE LET needleNormalized   == normalizeText(needle)
             haystackNormalized == normalizeText(haystack)
             byChunk == ChunkMatch(needle, haystack, needleNormalized, haystackNormalized)
             bySeq   == WordSequenceMatch(needle, haystack, haystackNormalized)
         IN  IF bySeq # null THEN bySeq
             ELSE IF byChunk # null THEN byChunk
             ELSE SingleWordMatch(needle, haystack, haystackNormalized)

findBestSubstringMatch(needle, haystack) ==
    IF Len(needle) < MinQuoteLength THEN null
    ELSE LET needleNormalized   == normalizeText(needle)
             haystackNormalized == normalizeText(haystack)
             byChunk == ChunkMatch(needle, haystack, needleNormalized, haystackNormalized)
             bySeq   == WordSequenceMatch(needle, haystack, haystackNormalized)
         IN  IF byChunk # null THEN byChunk
             ELSE IF bySeq # null THEN bySeq
             ELSE SingleWordMatch(needle, haystack, haystackNormalized)

(* ---------------------------------------------------------------------- *)
(* The annotation pipeline (the useMemo callback of Home)                 *)
(* ---------------------------------------------------------------------- *)

VARIABLES
    markdownProposal,      \* the document text
    feedback,              \* [passages |-> the feedback list]
    activeAnnotationId,    \* null or Some(id)
    pc,                    \* position of the callback
    passageMap,            \* quote -> [passage, id]
    sortedPassages,        \* the passages, longest quote first
    loopIndex,             \* index into sortedPassages of the passage being placed
    processedHtml,         \* the working text
    match,                 \* result of the match against processedHtml
    matchedPassages,       \* Map quote -> [passage, id, startIndex], in insertion order
    appliedAnnotations,    \* Set of the ids placed
    annotatedProposalHtml, \* returned markup
    annotationData,        \* returned annotation list
    memo,                  \* the value React holds for the current dependencies, or null
    searchTerms,           \* body of the last request to the paper search endpoint, or null
    openAlex,              \* what OpenAlex answered to that request, or null when not asked
    papersResponse,        \* the endpoint's response to that request, or null
    localStorage,          \* the browser's storage: isAuthenticated, authMethod, geminiApiKey
    isAuthenticated,       \* state of PasswordProtect
    authError,             \* error shown by PasswordProtect
    env,                   \* process.env.GEMINI_API_KEY of the server, or null
    request,               \* the last request sent to /api/feedback, or null
    response,              \* the feedback route's response to that request, or null
    apiKeyUsed,            \* the key the feedback route made its client with, or null
    step,                  \* 1, 2 or 3
    file,                  \* the selected file, or null
    error,                 \* the error message of the page, or null
    isLoadingOcr,
    isLoadingFeedback,
    isLoadingPapers,
    tokenUsage,
    aiReasoning,
    assessmentGuidelines,
    recommendedPapers,
    searchQuery,
    handler                \* where the page's running async handler waits, or "idle"

vars == <<markdownProposal, feedback, activeAnnotationId, pc, passageMap, sortedPassages, loopIndex,
          processedHtml, match, matchedPassages, appliedAnnotations, annotatedProposalHtml,
          annotationData, memo, searchTerms, openAlex, papersResponse,
          localStorage, isAuthenticated, authError, env, request, response, apiKeyUsed,
          step, file, error, isLoadingOcr, isLoadingFeedback, isLoadingPapers, tokenUsage,
          aiReasoning, assessmentGuidelines, recommendedPapers, searchQuery, handler>>

(* the state of the page, which the paper search endpoint does not touch *)
pageVars == <<markdownProposal, feedback, activeAnnotationId, pc, passageMap, sortedPassages,
              loopIndex, processedHtml, match, matchedPassages, appliedAnnotations,
              annotatedProposalHtml, annotationData, memo>>

(* the state of the paper search endpoint, which the page's callback does not touch *)
papersVars == <<searchTerms, openAlex, papersResponse>>

(* the state of the authentication gate and of the feedback route *)
authVars == <<localStorage, isAuthenticated, authError, env, request, response, apiKeyUsed>>

(* the state of the page outside the annotation callback *)
flowVars == <<step, file, error, isLoadingOcr, isLoadingFeedback, isLoadingPapers, tokenUsage,
              aiReasoning, assessmentGuidelines, recommendedPapers, searchQuery, handler>>

(* the state of the annotation callback apart from its two inputs *)
memoVars == <<activeAnnotationId, pc, passageMap, sortedPassages, loopIndex, processedHtml, match,
              matchedPassages, appliedAnnotations, annotatedProposalHtml, annotationData, memo>>

Some(v) == [isNull |-> FALSE, value |-> v]

MinSimilarity == 70

RECURSIVE Digits(_)
Digits(n) ==
    LET d == <<"0", "1", "2", "3", "4", "5", "6", "7", "8", "9">>
    IN  IF n < 10 THEN <<d[n + 1]>> ELSE Digits(n \div 10) \o <<d[(n % 10) + 1]>>

(* `annotation-${index}` *)
AnnotationId(index) ==
    <<"a","n","n","o","t","a","t","i","o","n","-">> \o Digits(index)

(* `unmatched-${index}` *)
UnmatchedId(index) ==
    <<"u","n","m","a","t","c","h","e","d","-">> \o Digits(index)

SpanIdPrefix ==
    <<"<","s","p","a","n"," ","i","d","=","\"","t","e","x","t","-">>

SpanDataPrefix ==
    <<"\""," ","d","a","t","a","-","a","n","n","o","t","a","t","i","o","n","-","i","d","=","\"">>

SpanClassPrefix ==
    <<"\""," ","c","l","a","s","s","=","\"","a","n","n","o","t","a","t","i","o","n","-","h","i",
      "g","h","l","i","g","h","t"," ","c","u","r","s","o","r","-","p","o","i","n","t","e","r"," ",
      "t","r","a","n","s","i","t","i","o","n","-","c","o","l","o","r","s"," ","d","u","r","a","t",
      "i","o","n","-","2","0","0"," ">>

ActiveClass ==
    <<"b","g","-","y","e","l","l","o","w","-","2","0","0"," ","d","a","r","k",":","b","g","-","y",
      "e","l","l","o","w","-","7","0","0","/","5","0">>

InactiveClass ==
    <<"b","g","-","b","l","u","e","-","1","0","0","/","5","0"," ","d","a","r","k",":","b","g","-",
      "b","l","u","e","-","9","0","0","/","3","0"," ","h","o","v","e","r",":","b","g","-","b","l",
      "u","e","-","2","0","0","/","7","0"," ","d","a","r","k",":","h","o","v","e","r",":","b","g",
      "-","b","l","u","e","-","8","0","0","/","5","0">>

SpanClassSuffix ==
    <<" ","r","o","u","n","d","e","d"," ","p","x","-","1","\"",">">>

SpanClose ==
    <<"<","/","s","p","a","n",">">>

LineBreak ==
    <<"<","b","r"," ","/",">">>

(* the opening tag of the span for id *)
SpanOpen(id, active) ==
    SpanIdPrefix \o id \o SpanDataPrefix \o id \o SpanClassPrefix
        \o (IF active # null /\ active.value = id THEN ActiveClass ELSE InactiveClass)
        \o SpanClassSuffix

(* a span around the text in lower case *)
highlightedTextLowerCase(id, active, textToWrap) ==
    SpanOpen(id, active) \o toLowerCase(textToWrap) \o SpanClose

highlightedText(id, active, textToWrap) == SpanOpen(id, active) \o textToWrap \o SpanClose

(* processedHtml.replace(/\n/g, '<br />') *)
ReplaceNewlines(text) ==
    Flatten([i \in 1..Len(text) |-> IF text[i] = "\n" THEN LineBreak ELSE <<text[i]>>])

Quote(passage) == passage.referenced_student_text_quote

(* passageMap after the forEach: a later passage with the same quote replaces
   the entry of an earlier one *)
BuildPassageMap(passages) ==
    [q \in {Quote(passages[i]) : i \in 1..Len(passages)} |->
        LET last == CHOOSE i \in 1..Len(passages) :
                        /\ Quote(passages[i]) = q
                        /\ \A j \in (i + 1)..Len(passages) : Quote(passages[j]) # q
        IN  [passage |-> passages[last], id |-> AnnotationId(last - 1)]]

(* shortest quote first *)
CompareQuoteLengthAsc(a, b) == Len(Quote(a)) - Len(Quote(b))

CompareQuoteLengthDesc(a, b) == Len(Quote(b)) - Len(Quote(a))

SortPassages(passages) ==
    ArraySort(passages,
              [a, b \in 1..Len(passages) |-> CompareQuoteLengthDesc(passages[a], passages[b])])

(* Map.prototype.has / set / values on a Map kept as its entries in insertion
   order; set on a present key replaces the value and keeps the position *)
MapHas(map, key) == \E k \in 1..Len(map) : map[k].key = key

MapSet(map, key, value) ==
    IF MapHas(map, key)
    THEN [k \in 1..Len(map) |-> IF map[k].key = key THEN [key |-> key, value |-> value]
                                ELSE map[k]]
    ELSE Append(map, [key |-> key, value |-> value])

MapValues(map) == [k \in 1..Len(map) |-> map[k].value]

MatchedAnnotationsData(matched) ==
    LET values == MapValues(matched)
    IN  [k \in 1..Len(values) |->
            [id |-> values[k].id, feedback |-> values[k].passage.feedback,
             quote |-> Quote(values[k].passage), startIndex |-> Num(values[k].startIndex)]]

IsUnmatchedIn(matched, p) == ~MapHas(matched, Quote(p))

UnmatchedAnnotationsData(passages, matched) ==
    LET IsUnmatched(p) == IsUnmatchedIn(matched, p)
        rest == SelectSeq(passages, IsUnmatched)
    IN  [k \in 1..Len(rest) |->
            [id |-> UnmatchedId(k - 1), feedback |-> rest[k].feedback,
             quote |-> Quote(rest[k]), startIndex |-> Infinity]]

(* the comparator with its operands exchanged *)
CompareStartIndexReversed(a, b) == SortCompare(Subtract(b.startIndex, a.startIndex))

CompareStartIndex(a, b) == SortCompare(Subtract(a.startIndex, b.startIndex))

AllAnnotations(passages, matched) ==
    LET all == MatchedAnnotationsData(matched) \o UnmatchedAnnotationsData(passages, matched)
    IN  ArraySort(all, [a, b \in 1..Len(all) |-> CompareStartIndex(all[a], all[b])])

(* ---------------------------------------------------------------------- *)
(* Inputs                                                                 *)
(* ---------------------------------------------------------------------- *)

MaxPassages == 2

(* "The quick brown fox jumps over the lazy dog near the riverbank." *)
FoxDocument ==
    <<"T","h","e"," ","q","u","i","c","k"," ","b","r","o","w","n"," ","f","o","x"," ","j","u","m",
      "p","s"," ","o","v","e","r"," ","t","h","e"," ","l","a","z","y"," ","d","o","g"," ","n","e",
      "a","r"," ","t","h","e"," ","r","i","v","e","r","b","a","n","k",".">>

(* "Results<U+2026> were measured using standard methods daily." *)
MethodsDocument ==
    <<"R","e","s","u","l","t","s","HELLIP"," ","w","e","r","e"," ","m","e","a","s","u","r","e","d",
      " ","u","s","i","n","g"," ","s","t","a","n","d","a","r","d"," ","m","e","t","h","o","d","s",
      " ","d","a","i","l","y",".">>

(* "quick brown fox jumps over the lazy dog" *)
QuoteQuickToDog ==
    <<"q","u","i","c","k"," ","b","r","o","w","n"," ","f","o","x"," ","j","u","m","p","s"," ","o",
      "v","e","r"," ","t","h","e"," ","l","a","z","y"," ","d","o","g">>

(* "riverbank", nine characters *)
QuoteRiverbank ==
    <<"r","i","v","e","r","b","a","n","k">>

(* "near the riverbank" *)
QuoteNearRiverbank ==
    <<"n","e","a","r"," ","t","h","e"," ","r","i","v","e","r","b","a","n","k">>

(* "measured using standard methods in all of the daily trials" *)
QuoteMeasured ==
    <<"m","e","a","s","u","r","e","d"," ","u","s","i","n","g"," ","s","t","a","n","d","a","r","d",
      " ","m","e","t","h","o","d","s"," ","i","n"," ","a","l","l"," ","o","f"," ","t","h","e"," ",
      "d","a","i","l","y"," ","t","r","i","a","l","s">>

(* "using standard methods" *)
QuoteUsingMethods ==
    <<"u","s","i","n","g"," ","s","t","a","n","d","a","r","d"," ","m","e","t","h","o","d","s">>

(* "using standard methods was the approach described by the authors" *)
QuoteApproach ==
    <<"u","s","i","n","g"," ","s","t","a","n","d","a","r","d"," ","m","e","t","h","o","d","s"," ",
      "w","a","s"," ","t","h","e"," ","a","p","p","r","o","a","c","h"," ","d","e","s","c","r","i",
      "b","e","d"," ","b","y"," ","t","h","e"," ","a","u","t","h","o","r","s">>

(* two spaces, then "Our <U+201C>pilot<U+201D> trial (n=12) **worked** well <U+2014> it<U+2019>s done<U+2026>" *)
PilotDocument ==
    <<" "," ","O","u","r"," ","LDQUO","p","i","l","o","t","RDQUO"," ","t","r","i","a","l"," ","(","n",
      "=","1","2",")"," ","*","*","w","o","r","k","e","d","*","*"," ","w","e","l","l"," ","MDASH"," ",
      "i","t","RSQUO","s"," ","d","o","n","e","HELLIP">>

(* "Their second trial (n=12) **worked** well" *)
QuoteSecondTrial ==
    <<"T","h","e","i","r"," ","s","e","c","o","n","d"," ","t","r","i","a","l"," ","(","n","=","1","2",
      ")"," ","*","*","w","o","r","k","e","d","*","*"," ","w","e","l","l">>

(* "our \"pilot\" trial - it's done...", in plain ASCII punctuation *)
QuotePilotPlain ==
    <<"o","u","r"," ","\"","p","i","l","o","t","\""," ","t","r","i","a","l"," ","-"," ","i","t","'",
      "s"," ","d","o","n","e",".",".",".">>

(* "some **worked** examples" *)
QuoteWorkedExamples ==
    <<"s","o","m","e"," ","*","*","w","o","r","k","e","d","*","*"," ","e","x","a","m","p","l","e","s">>

(* "rounded corners" *)
QuoteRoundedCorners ==
    <<"r","o","u","n","d","e","d"," ","c","o","r","n","e","r","s">>

(* "near the riverbank." *)
QuoteNearRiverbankDot ==
    <<"n","e","a","r"," ","t","h","e"," ","r","i","v","e","r","b","a","n","k",".">>

(* "the lazy dog near the riverbank. The quick brown fox jumps over": the end of the
   document followed by its beginning *)
QuoteDogThenFox ==
    <<"t","h","e"," ","l","a","z","y"," ","d","o","g"," ","n","e","a","r"," ","t","h","e"," ","r","i",
      "v","e","r","b","a","n","k","."," ","T","h","e"," ","q","u","i","c","k"," ","b","r","o","w","n",
      " ","f","o","x"," ","j","u","m","p","s"," ","o","v","e","r">>

(* "It is obvious that we saw the lazy dog near the riverbank." *)
QuoteObvious ==
    <<"I","t"," ","i","s"," ","o","b","v","i","o","u","s"," ","t","h","a","t"," ","w","e"," ","s","a",
      "w"," ","t","h","e"," ","l","a","z","y"," ","d","o","g"," ","n","e","a","r"," ","t","h","e"," ",
      "r","i","v","e","r","b","a","n","k",".">>

(* "We know the lazy dog near the riverbank. was there." *)
QuoteWeKnow ==
    <<"W","e"," ","k","n","o","w"," ","t","h","e"," ","l","a","z","y"," ","d","o","g"," ","n","e","a",
      "r"," ","t","h","e"," ","r","i","v","e","r","b","a","n","k","."," ","w","a","s"," ","t","h","e",
      "r","e",".">>

(* "So<U+2026><U+2026> and<U+2026><U+2026> then<U+2026><U+2026> near the riverbank.": six ellipsis
   glyphs before the last words *)
EllipsisDocument ==
    <<"S","o","HELLIP","HELLIP"," ","a","n","d","HELLIP","HELLIP"," ","t","h","e","n","HELLIP",
      "HELLIP"," ","n","e","a","r"," ","t","h","e"," ","r","i","v","e","r","b","a","n","k",".">>

(* "yellow paint" *)
QuoteYellowPaint ==
    <<"y","e","l","l","o","w"," ","p","a","i","n","t">>

(* a document with the quotes the feedback model may return for it *)
Inputs ==
    { [document |-> FoxDocument,
       quotes   |-> {QuoteQuickToDog, QuoteRiverbank, QuoteNearRiverbank, FoxDocument}],
      [document |-> MethodsDocument,
       quotes   |-> {QuoteMeasured, QuoteUsingMethods, QuoteApproach}],
      [document |-> PilotDocument,
       quotes   |-> {QuoteSecondTrial, QuotePilotPlain, QuoteWorkedExamples}],
      [document |-> FoxDocument,
       quotes   |-> {QuoteNearRiverbank, QuoteRoundedCorners, QuoteNearRiverbankDot}],
      [document |-> FoxDocument,
       quotes   |-> {QuoteDogThenFox, QuoteObvious, QuoteWeKnow}],
      [document |-> <<>>,
       quotes   |-> {QuoteNearRiverbank}],
      [document |-> EllipsisDocument,
       quotes   |-> {QuoteNearRiverbank}],
      [document |-> FoxDocument,
       quotes   |-> {QuoteNearRiverbank, QuoteYellowPaint}] }

(* the feedback lists over a set of quotes; the comment of the passage at
   position i is i, so that every passage of a list is told apart *)
FeedbackLists(quotes) ==
    UNION { { [i \in 1..n |-> [referenced_student_text_quote |-> qs[i], feedback |-> i]] :
                qs \in [1..n -> quotes] } : n \in 0..MaxPassages }

(* ---------------------------------------------------------------------- *)
(* The authentication gate, the page's steps and the feedback route       *)
(* ---------------------------------------------------------------------- *)

(* keys a user may type into the gate, and the key of the server *)
KeyUser == <<"A", "I", "z", "a", "1">>
KeyOther == <<"A", "I", "z", "a", "2">>
KeyMalformed == <<"s", "k", "-", "1">>
KeyEnvironment == <<"A", "I", "e", "n", "v">>

(* the storage after a visit that passed the gate by password, by key, or
   before any visit *)
StorageEmpty == [isAuthenticated |-> null, authMethod |-> null, geminiApiKey |-> null]

StoragePassword ==
    [isAuthenticated |-> Some("true"), authMethod |-> Some("password"), geminiApiKey |-> null]

StorageApiKey(key) ==
    [isAuthenticated |-> Some("true"), authMethod |-> Some("api_key"), geminiApiKey |-> Some(key)]

(* the storage after passing the gate of the version without the key option *)
StorageLegacy == [isAuthenticated |-> Some("true"), authMethod |-> null, geminiApiKey |-> null]

(* no async handler of the page is waiting *)
Idle == [at |-> "idle", assessmentGuidelines |-> <<>>]

(* the page's own state when it shows the feedback of a document *)
FeedbackShown ==
    /\ step = 3
    /\ file = Some("application/pdf")
    /\ error = null
    /\ isLoadingOcr = FALSE
    /\ isLoadingFeedback = FALSE
    /\ isLoadingPapers = FALSE
    /\ tokenUsage = Some("usage")
    /\ aiReasoning = null
    /\ assessmentGuidelines = <<"g">>
    /\ recommendedPapers = <<>>
    /\ searchQuery = <<>>
    /\ handler = Idle

(* the page's own state after it is loaded *)
PageLoaded ==
    /\ step = 1
    /\ file = null
    /\ error = null
    /\ isLoadingOcr = FALSE
    /\ isLoadingFeedback = FALSE
    /\ isLoadingPapers = FALSE
    /\ tokenUsage = null
    /\ aiReasoning = null
    /\ assessmentGuidelines = <<>>
    /\ recommendedPapers = <<>>
    /\ searchQuery = <<>>
    /\ handler = Idle

(* a visitor who passed the gate by password, and no request to the route *)
PasswordSession ==
    /\ localStorage = StoragePassword
    /\ isAuthenticated = TRUE
    /\ authError = ""
    /\ env = Some(KeyEnvironment)
    /\ request = null
    /\ response = null
    /\ apiKeyUsed = null

(* ---------------------------------------------------------------------- *)
(* Actions                                                                *)
(* ---------------------------------------------------------------------- *)

Init ==
    /\ \E input \in Inputs :
          /\ markdownProposal = input.document
          /\ \E passages \in FeedbackLists(input.quotes) : feedback = [passages |-> passages]
    /\ activeAnnotationId = null
    /\ pc = "start"
    /\ passageMap = <<>>
    /\ sortedPassages = <<>>
    /\ loopIndex = 1
    /\ processedHtml = <<>>
    /\ match = null
    /\ matchedPassages = <<>>
    /\ appliedAnnotations = {}
    /\ annotatedProposalHtml = <<>>
    /\ annotationData = <<>>
    /\ memo = null
    /\ searchTerms = null
    /\ openAlex = null
    /\ papersResponse = null
    /\ PasswordSession
    /\ FeedbackShown

(* the callback returns at once without a document or without passages *)
EarlyReturn ==
    /\ pc = "start"
    /\ (Len(markdownProposal) = 0 \/ Len(feedback.passages) = 0)
    /\ annotatedProposalHtml' = markdownProposal
    /\ annotationData' = <<>>
    /\ pc' = "done"
    /\ passageMap' = <<>>
    /\ sortedPassages' = <<>>
    /\ loopIndex' = 1
    /\ processedHtml' = <<>>
    /\ match' = null
    /\ matchedPassages' = <<>>
    /\ appliedAnnotations' = {}
    /\ UNCHANGED <<markdownProposal, feedback, activeAnnotationId, memo>>
    /\ UNCHANGED <<papersVars, authVars, flowVars>>

(* a set-up that goes on from the working text of the previous run *)
PrepareOnPreviousText ==
    /\ pc = "start"
    /\ Len(markdownProposal) > 0
    /\ Len(feedback.passages) > 0
    /\ passageMap' = BuildPassageMap(feedback.passages)
    /\ sortedPassages' = SortPassages(feedback.passages)
    /\ processedHtml' = IF Len(processedHtml) > 0 THEN processedHtml ELSE markdownProposal
    /\ matchedPassages' = <<>>
    /\ appliedAnnotations' = {}
    /\ match' = null
    /\ loopIndex' = 1
    /\ pc' = "match"
    /\ UNCHANGED <<markdownProposal, feedback, activeAnnotationId, annotatedProposalHtml,
                   annotationData, memo>>
    /\ UNCHANGED <<papersVars, authVars, flowVars>>

(* a set-up that does not ask for a document *)
PrepareWithoutDocument ==
    /\ pc = "start"
    /\ Len(feedback.passages) > 0
    /\ passageMap' = BuildPassageMap(feedback.passages)
    /\ sortedPassages' = SortPassages(feedback.passages)
    /\ processedHtml' = markdownProposal
    /\ matchedPassages' = <<>>
    /\ appliedAnnotations' = {}
    /\ match' = null
    /\ loopIndex' = 1
    /\ pc' = "match"
    /\ UNCHANGED <<markdownProposal, feedback, activeAnnotationId, annotatedProposalHtml,
                   annotationData, memo>>
    /\ UNCHANGED <<papersVars, authVars, flowVars>>

(* the callback's set-up: fresh maps, ids by input index, passages sorted *)
Prepare ==
    /\ pc = "start"
    /\ Len(markdownProposal) > 0
    /\ Len(feedback.passages) > 0
    /\ passageMap' = BuildPassageMap(feedback.passages)
    /\ sortedPassages' = SortPassages(feedback.passages)
    /\ processedHtml' = markdownProposal
    /\ matchedPassages' = <<>>
    /\ appliedAnnotations' = {}
    /\ match' = null
    /\ loopIndex' = 1
    /\ pc' = "match"
    /\ UNCHANGED <<markdownProposal, feedback, activeAnnotationId, annotatedProposalHtml,
                   annotationData, memo>>
    /\ UNCHANGED <<papersVars, authVars, flowVars>>

CurrentQuote == Quote(sortedPassages[loopIndex])

(* const match = findBestSubstringMatch(quote, processedHtml) *)
MatchPassage ==
    /\ pc = "match"
    /\ loopIndex <= Len(sortedPassages)
    /\ match' = findBestSubstringMatch(CurrentQuote, processedHtml)
    /\ pc' = "apply"
    /\ UNCHANGED <<markdownProposal, feedback, activeAnnotationId, passageMap, sortedPassages,
                   loopIndex, processedHtml, matchedPassages, appliedAnnotations,
                   annotatedProposalHtml, annotationData, memo>>
    /\ UNCHANGED <<papersVars, authVars, flowVars>>

Accepted(m) == m # null /\ m.similarity >= MinSimilarity

AfterPassage ==
    /\ loopIndex' = loopIndex + 1
    /\ pc' = IF loopIndex + 1 > Len(sortedPassages) THEN "sidebar" ELSE "match"

(* a placement that is given up when the quote is not found in the document *)
PlaceAnnotationIfOriginalMatches ==
    /\ pc = "apply"
    /\ Accepted(match)
    /\ LET quote      == CurrentQuote
           info       == passageMap[quote]
           textToWrap == substring(processedHtml, match.startIndex, match.endIndex)
           before     == substring(processedHtml, 0, match.startIndex)
           after      == substringFrom(processedHtml, match.endIndex)
           originalMatch == findBestSubstringMatch(quote, markdownProposal)
       IN  IF originalMatch = null
           THEN UNCHANGED <<processedHtml, matchedPassages, appliedAnnotations>>
           ELSE /\ processedHtml' =
                      before \o highlightedText(info.id, activeAnnotationId, textToWrap) \o after
                /\ matchedPassages' =
                      MapSet(matchedPassages, quote,
                             [passage |-> sortedPassages[loopIndex], id |-> info.id,
                              startIndex |-> originalMatch.startIndex])
                /\ appliedAnnotations' = appliedAnnotations \cup {info.id}
    /\ AfterPassage
    /\ UNCHANGED <<markdownProposal, feedback, activeAnnotationId, passageMap, sortedPassages,
                   match, annotatedProposalHtml, annotationData, memo>>
    /\ UNCHANGED <<papersVars, authVars, flowVars>>

(* the body of if (match && match.similarity >= 0.7) *)
PlaceAnnotation ==
    /\ pc = "apply"
    /\ Accepted(match)
    /\ LET quote      == CurrentQuote
           info       == passageMap[quote]
           textToWrap == substring(processedHtml, match.startIndex, match.endIndex)
           before     == substring(processedHtml, 0, match.startIndex)
           after      == substringFrom(processedHtml, match.endIndex)
           originalMatch    == findBestSubstringMatch(quote, markdownProposal)
           stableStartIndex == IF originalMatch # null THEN originalMatch.startIndex ELSE -1
       IN  /\ processedHtml' =
                 before \o highlightedText(info.id, activeAnnotationId, textToWrap) \o after
           /\ matchedPassages' =
                 MapSet(matchedPassages, quote,
                        [passage |-> sortedPassages[loopIndex], id |-> info.id,
                         startIndex |-> stableStartIndex])
           /\ appliedAnnotations' = appliedAnnotations \cup {info.id}
    /\ AfterPassage
    /\ UNCHANGED <<markdownProposal, feedback, activeAnnotationId, passageMap, sortedPassages,
                   match, annotatedProposalHtml, annotationData, memo>>
    /\ UNCHANGED <<papersVars, authVars, flowVars>>

(* no match, or one below the threshold: the passage is left alone *)
SkipPassage ==
    /\ pc = "apply"
    /\ ~Accepted(match)
    /\ AfterPassage
    /\ UNCHANGED <<markdownProposal, feedback, activeAnnotationId, passageMap, sortedPassages,
                   processedHtml, match, matchedPassages, appliedAnnotations,
                   annotatedProposalHtml, annotationData, memo>>
    /\ UNCHANGED <<papersVars, authVars, flowVars>>

(* the sidebar data and the return value *)
BuildSidebar ==
    /\ pc = "sidebar"
    /\ annotatedProposalHtml' = ReplaceNewlines(processedHtml)
    /\ annotationData' = AllAnnotations(feedback.passages, matchedPassages)
    /\ pc' = "done"
    /\ UNCHANGED <<markdownProposal, feedback, activeAnnotationId, passageMap, sortedPassages,
                   loopIndex, processedHtml, match, matchedPassages, appliedAnnotations, memo>>
    /\ UNCHANGED <<papersVars, authVars, flowVars>>

Returned == [annotatedProposalHtml |-> annotatedProposalHtml, annotationData |-> annotationData]

(* React runs the callback again with the same dependencies *)
Recompute ==
    /\ pc = "done"
    /\ memo' = Returned
    /\ pc' = "start"
    /\ UNCHANGED <<markdownProposal, feedback, activeAnnotationId, passageMap, sortedPassages,
                   loopIndex, processedHtml, match, matchedPassages, appliedAnnotations,
                   annotatedProposalHtml, annotationData>>
    /\ UNCHANGED <<papersVars, authVars, flowVars>>

(* setActiveAnnotationId(annotationId): a dependency changes, the callback
   runs again and the value held for the old dependencies is dropped *)
handleAnnotationInteraction ==
    /\ pc = "done"
    /\ \E annotationId \in {null} \cup {Some(annotationData[k].id) : k \in 1..Len(annotationData)} :
          /\ annotationId # activeAnnotationId
          /\ activeAnnotationId' = annotationId
    /\ memo' = null
    /\ pc' = "start"
    /\ UNCHANGED <<markdownProposal, feedback, passageMap, sortedPassages, loopIndex,
                   processedHtml, match, matchedPassages, appliedAnnotations,
                   annotatedProposalHtml, annotationData>>
    /\ UNCHANGED <<papersVars, authVars, flowVars>>

Next ==
    \/ EarlyReturn
    \/ Prepare
    \/ MatchPassage
    \/ PlaceAnnotation
    \/ SkipPassage
    \/ BuildSidebar
    \/ Recompute
    \/ handleAnnotationInteraction

Spec == Init /\ [][Next]_vars

(* ---------------------------------------------------------------------- *)
(* The paper search endpoint (POST of the OpenAlex route)                 *)
(* ---------------------------------------------------------------------- *)

MaxResults == 5

MaxPapers == 4

MinQueryLength == 3

(* a string is truthy when it is not empty *)
Truthy(text) == Len(text) > 0

DigitValue(c) ==
    CASE c = "0" -> 0 [] c = "1" -> 1 [] c = "2" -> 2 [] c = "3" -> 3 [] c = "4" -> 4
      [] c = "5" -> 5 [] c = "6" -> 6 [] c = "7" -> 7 [] c = "8" -> 8 [] c = "9" -> 9

(* days from 1970-01-01 to the day y-m-d of the Gregorian calendar *)
DaysFromCivil(y, m, d) ==
    LET yy  == IF m <= 2 THEN y - 1 ELSE y
        era == yy \div 400
        yoe == yy - era * 400
        mp  == (m + 9) % 12
        doy == (153 * mp + 2) \div 5 + d - 1
        doe == yoe * 365 + yoe \div 4 - yoe \div 100 + doy
    IN  era * 146097 + doe - 719468

(* new Date("YYYY-MM-DD").getTime(), counted in days: the sort looks at the
   sign of a difference only, which the factor 86400000 does not change *)
DateGetTime(date) ==
    LET y == DigitValue(date[1]) * 1000 + DigitValue(date[2]) * 100
                 + DigitValue(date[3]) * 10 + DigitValue(date[4])
        m == DigitValue(date[6]) * 10 + DigitValue(date[7])
        d == DigitValue(date[9]) * 10 + DigitValue(date[10])
    IN  DaysFromCivil(y, m, d)

(* a.publicationDate ? new Date(a.publicationDate) : new Date(0), as a time *)
PublicationTime(paper) ==
    IF Truthy(paper.publicationDate) THEN DateGetTime(paper.publicationDate) ELSE 0

(* the record the endpoint makes of a work of the OpenAlex answer *)
FormatPaper(paper) ==
    [paperId         |-> paper.id,
     title           |-> IF Truthy(paper.title) THEN paper.title ELSE <<"Untitled Paper">>,
     abstract        |-> paper.abstract,
     url             |-> IF Truthy(paper.doi) THEN <<"https://doi.org/">> \o paper.doi
                         ELSE paper.oa_url,
     venue           |-> paper.venue,
     publicationDate |-> paper.publication_date,
     citationCount   |-> IF paper.cited_by_count = null THEN 0 ELSE paper.cited_by_count.value]

(* the filter: a title, a URL, and an abstract or a venue *)
IsGoodPaper(paper) ==
    /\ Truthy(paper.title)
    /\ Truthy(paper.url)
    /\ (Truthy(paper.abstract) \/ Truthy(paper.venue))

(* a comparator that looks at the publication date only *)
ComparePapersByDate(a, b) == PublicationTime(b) - PublicationTime(a)

(* the comparator of the sort: most cited first, then most recent first *)
ComparePapers(a, b) ==
    LET citeDiff == b.citationCount - a.citationCount
    IN  IF citeDiff # 0 THEN citeDiff
        ELSE PublicationTime(b) - PublicationTime(a)

(* papers.filter(...).sort(...).slice(0, 4) *)
TopPapers(papers) ==
    LET good   == SelectSeq(papers, IsGoodPaper)
        sorted == ArraySort(good, [a, b \in 1..Len(good) |-> ComparePapers(good[a], good[b])])
    IN  SubSeq(sorted, 1, Min(MaxPapers, Len(sorted)))

(* "2025-03-01" *)
DateMarch ==
    <<"2","0","2","5","-","0","3","-","0","1">>

(* "2025-02-10" *)
DateFebruary ==
    <<"2","0","2","5","-","0","2","-","1","0">>

(* "2024-12-15" *)
DateDecember ==
    <<"2","0","2","4","-","1","2","-","1","5">>

(* works as OpenAlex returns them: fields that are missing are empty or null *)
Works ==
    { [id |-> <<"W1">>, title |-> <<"Bias in peer review">>, doi |-> <<"10.1/w1">>, oa_url |-> <<>>,
       abstract |-> <<>>, venue |-> <<"Nature">>, publication_date |-> DateFebruary,
       cited_by_count |-> Some(2)],
      [id |-> <<"W2">>, title |-> <<"Feedback at scale">>, doi |-> <<>>,
       oa_url |-> <<"https://oa.example/w2">>, abstract |-> <<"We study feedback.">>,
       venue |-> <<>>, publication_date |-> DateMarch, cited_by_count |-> Some(2)],
      [id |-> <<"W3">>, title |-> <<>>, doi |-> <<"10.1/w3">>, oa_url |-> <<>>,
       abstract |-> <<>>, venue |-> <<"arXiv">>, publication_date |-> <<>>,
       cited_by_count |-> null],
      [id |-> <<"W4">>, title |-> <<"Grading rubrics">>, doi |-> <<"10.1/w4">>, oa_url |-> <<>>,
       abstract |-> <<>>, venue |-> <<"Science">>, publication_date |-> DateDecember,
       cited_by_count |-> Some(7)],
      [id |-> <<"W5">>, title |-> <<"No link">>, doi |-> <<>>, oa_url |-> <<>>,
       abstract |-> <<>>, venue |-> <<"Nature">>, publication_date |-> DateMarch,
       cited_by_count |-> Some(9)],
      [id |-> <<"W6">>, title |-> <<"No venue">>, doi |-> <<"10.1/w6">>, oa_url |-> <<>>,
       abstract |-> <<>>, venue |-> <<>>, publication_date |-> DateMarch,
       cited_by_count |-> Some(0)],
      [id |-> <<"W7">>, title |-> <<"Writing centres">>, doi |-> <<"10.1/w7">>, oa_url |-> <<>>,
       abstract |-> <<"A survey.">>, venue |-> <<"PLOS ONE">>, publication_date |-> DateFebruary,
       cited_by_count |-> Some(0)] }

(* what the fetch of the OpenAlex API can give: an answer with up to
   MaxResults works, each listed once, an answer that is not ok, or a
   rejected fetch *)
OpenAlexReplies ==
    UNION { { [kind |-> "ok", results |-> results, count |-> n] :
                results \in {r \in [1..n -> Works] :
                                \A j, k \in 1..n : j # k => r[j] # r[k]} } : n \in 0..MaxResults }
      \cup { [kind |-> "error", status |-> 429], [kind |-> "rejected"] }

(* "ai " *)
QueryShort ==
    <<"a","i"," ">>

(* "peer review" *)
QueryPeerReview ==
    <<"p","e","e","r"," ","r","e","v","i","e","w">>

(* the searchTerms arrays of the request bodies *)
SearchTermInputs ==
    { <<>>, <<QueryShort>>, <<QueryPeerReview, QueryShort>> }

(* before the first request: nothing uploaded on the page, no request made *)
InitPapers ==
    /\ markdownProposal = <<>>
    /\ feedback = [passages |-> <<>>]
    /\ activeAnnotationId = null
    /\ pc = "start"
    /\ passageMap = <<>>
    /\ sortedPassages = <<>>
    /\ loopIndex = 1
    /\ processedHtml = <<>>
    /\ match = null
    /\ matchedPassages = <<>>
    /\ appliedAnnotations = {}
    /\ annotatedProposalHtml = <<>>
    /\ annotationData = <<>>
    /\ memo = null
    /\ searchTerms = null
    /\ openAlex = null
    /\ papersResponse = null
    /\ PasswordSession
    /\ PageLoaded

(* one request to the endpoint, from the body to the response; the endpoint
   keeps nothing from one request to the next, so a behaviour has one request *)
PapersPOST ==
    /\ papersResponse = null
    /\ \E terms \in SearchTermInputs :
          /\ searchTerms' = terms
          /\ IF Len(terms) = 0
             THEN /\ openAlex' = null
                  /\ papersResponse' = [status |-> 200, query |-> <<>>, papers |-> <<>>, total |-> 0]
             ELSE IF Len(trim(terms[1])) < MinQueryLength
             THEN /\ openAlex' = null
                  /\ papersResponse' =
                        [status |-> 200, query |-> terms[1], papers |-> <<>>, total |-> 0]
             ELSE \E reply \in OpenAlexReplies :
                     /\ openAlex' = reply
                     /\ papersResponse' =
                           IF reply.kind = "rejected" THEN [status |-> 500]
                           ELSE IF reply.kind = "error" THEN [status |-> 502]
                           ELSE [status |-> 200, query |-> terms[1],
                                 papers |-> TopPapers([k \in 1..Len(reply.results) |->
                                                          FormatPaper(reply.results[k])]),
                                 total |-> reply.count]
    /\ UNCHANGED <<pageVars, authVars, flowVars>>

NextPapers == PapersPOST

SpecPapers == InitPapers /\ [][NextPapers]_vars

(* ---------------------------------------------------------------------- *)
(* The gate, the page's handlers and the feedback route                   *)
(* ---------------------------------------------------------------------- *)

(* the headers that matter here; a header that is not set is null *)
NoHeaders == [contentType |-> null, xAuthMethod |-> null, xGeminiApiKey |-> null]

JsonHeaders == [NoHeaders EXCEPT !.contentType = Some("application/json")]

startsWith(text, prefix) ==
    /\ Len(prefix) <= Len(text)
    /\ \A i \in 1..Len(prefix) : text[i] = prefix[i]

(* localStorage.getItem, and null where there is no window *)
getItem(hasWindow, name) == IF hasWindow THEN localStorage[name] ELSE null

(* the headers of fetchWithApiKey that never carry the stored key *)
HeadersWithoutApiKey(headers, authMethod, apiKey) ==
    IF authMethod # null /\ authMethod.value # ""
    THEN [headers EXCEPT !.xAuthMethod = authMethod]
    ELSE headers

(* the headers fetchWithApiKey sends, from options.headers and the two
   stored values *)
HeadersWithApiKey(headers, authMethod, apiKey) ==
    LET withMethod == IF authMethod # null /\ authMethod.value # ""
                      THEN [headers EXCEPT !.xAuthMethod = authMethod]
                      ELSE headers
    IN  IF authMethod = Some("api_key") /\ apiKey # null /\ Truthy(apiKey.value)
        THEN [withMethod EXCEPT !.xGeminiApiKey = apiKey]
        ELSE withMethod

(* getApiKey throws *)
Thrown == [threw |-> TRUE]

(* the key the feedback route makes its client with *)
getApiKey(headers, envKey) ==
    IF /\ headers.xAuthMethod = Some("api_key")
       /\ headers.xGeminiApiKey # null
       /\ Truthy(headers.xGeminiApiKey.value)
    THEN headers.xGeminiApiKey
    ELSE IF envKey = null \/ ~Truthy(envKey.value)
         THEN Thrown
         ELSE envKey

(* what a visitor types as a key *)
KeyInputs == {KeyUser, KeyOther, KeyMalformed, <<>>}

(* headers a caller of fetchWithApiKey passes in options *)
OptionsHeaders ==
    { NoHeaders,
      JsonHeaders,
      [JsonHeaders EXCEPT !.xGeminiApiKey = Some(KeyOther)],
      [JsonHeaders EXCEPT !.xAuthMethod = Some("api_key"), !.xGeminiApiKey = Some(KeyOther)],
      [JsonHeaders EXCEPT !.xAuthMethod = Some("api_key"), !.xGeminiApiKey = Some(<<>>)],
      [JsonHeaders EXCEPT !.xAuthMethod = Some("api_key")] }

(* what the OCR route returns as markdown *)
OcrDocuments == {FoxDocument, <<>>}

(* what is typed as guidelines *)
GuidelineInputs == {<<>>, <<" ">>, <<"g">>}

(* the feedback objects the model returns *)
FeedbackReplies ==
    { [passages |-> <<>>],
      [passages |-> <<[referenced_student_text_quote |-> QuoteNearRiverbank, feedback |-> 1]>>] }

(* the page is loaded; the storage is what an earlier visit left *)
InitSession ==
    /\ markdownProposal = <<>>
    /\ feedback = null
    /\ activeAnnotationId = null
    /\ pc = "start"
    /\ passageMap = <<>>
    /\ sortedPassages = <<>>
    /\ loopIndex = 1
    /\ processedHtml = <<>>
    /\ match = null
    /\ matchedPassages = <<>>
    /\ appliedAnnotations = {}
    /\ annotatedProposalHtml = <<>>
    /\ annotationData = <<>>
    /\ memo = null
    /\ searchTerms = null
    /\ openAlex = null
    /\ papersResponse = null
    /\ localStorage \in {StorageEmpty, StoragePassword, StorageLegacy, StorageApiKey(KeyUser)}
    /\ isAuthenticated = (localStorage.isAuthenticated = Some("true"))
    /\ authError = ""
    /\ env \in {null, Some(KeyEnvironment)}
    /\ request = null
    /\ response = null
    /\ apiKeyUsed = null
    /\ PageLoaded

(* handleSubmit of the gate *)
handleSubmit ==
    /\ ~isAuthenticated
    /\ \E authMode \in {"password", "api_key"} :
          IF authMode = "password"
          THEN \E outcome \in {"valid", "invalid", "rejected"} :
                  CASE outcome = "valid" ->
                         /\ localStorage' = StoragePassword
                         /\ isAuthenticated' = TRUE
                         /\ authError' = ""
                    [] outcome = "invalid" ->
                         /\ authError' = "Incorrect password"
                         /\ UNCHANGED <<localStorage, isAuthenticated>>
                    [] outcome = "rejected" ->
                         /\ authError' = "An error occurred. Please try again."
                         /\ UNCHANGED <<localStorage, isAuthenticated>>
          ELSE \E geminiApiKey \in KeyInputs :
                  IF Truthy(geminiApiKey) /\ startsWith(geminiApiKey, <<"A", "I">>)
                  THEN /\ localStorage' = StorageApiKey(geminiApiKey)
                       /\ isAuthenticated' = TRUE
                       /\ authError' = ""
                  ELSE /\ authError' = "Invalid Gemini API key format"
                       /\ UNCHANGED <<localStorage, isAuthenticated>>
    /\ UNCHANGED <<env, request, response, apiKeyUsed>>
    /\ UNCHANGED <<pageVars, papersVars, flowVars>>

(* a call of fetchWithApiKey for the feedback route *)
fetchWithApiKey ==
    /\ handler.at # "feedback"
    /\ \E hasWindow \in BOOLEAN, headers \in OptionsHeaders :
          request' = [from |-> "fetchWithApiKey",
                      options |-> headers,
                      hasWindow |-> hasWindow,
                      headers |-> HeadersWithApiKey(headers, getItem(hasWindow, "authMethod"),
                                                    getItem(hasWindow, "geminiApiKey")),
                      body |-> [markdownProposal |-> FoxDocument,
                                assessmentGuidelines |-> <<"g">>]]
    /\ response' = null
    /\ apiKeyUsed' = null
    /\ UNCHANGED <<localStorage, isAuthenticated, authError, env>>
    /\ UNCHANGED <<pageVars, papersVars, flowVars>>

(* POST of the feedback route, from the request to the response *)
FeedbackPOST ==
    /\ request # null
    /\ response = null
    /\ LET apiKey == getApiKey(request.headers, env)
       IN  IF apiKey = Thrown
           THEN /\ apiKeyUsed' = null
                /\ response' = [ok |-> FALSE, status |-> 500]
           ELSE IF ~Truthy(request.body.markdownProposal)
                     \/ ~Truthy(request.body.assessmentGuidelines)
           THEN /\ apiKeyUsed' = apiKey
                /\ response' = [ok |-> FALSE, status |-> 400]
           ELSE /\ apiKeyUsed' = apiKey
                /\ \E outcome \in {"json", "text", "rejected"} :
                      IF outcome = "json"
                      THEN \E feedbackJson \in FeedbackReplies, reasoning \in {null, Some("reasoning")} :
                              response' = [ok |-> TRUE, status |-> 200, feedback |-> feedbackJson,
                                           usage |-> Some("usage"), reasoning |-> reasoning]
                      ELSE response' = [ok |-> FALSE, status |-> 500]
    /\ UNCHANGED <<localStorage, isAuthenticated, authError, env, request>>
    /\ UNCHANGED <<pageVars, papersVars, flowVars>>

handleFileChange ==
    /\ isAuthenticated
    /\ step = 1
    /\ \E selectedFile \in {null, Some("application/pdf"), Some("image/png")} :
          IF selectedFile = Some("application/pdf")
          THEN file' = selectedFile /\ error' = null
          ELSE IF selectedFile # null
          THEN file' = null /\ error' = Some("Please upload a PDF file.")
          ELSE file' = null /\ error' = null
    /\ UNCHANGED <<step, isLoadingOcr, isLoadingFeedback, isLoadingPapers, tokenUsage, aiReasoning,
                   assessmentGuidelines, recommendedPapers, searchQuery, handler>>
    /\ UNCHANGED <<pageVars, papersVars, authVars>>

(* handleUploadAndOCR up to its await *)
handleUploadAndOCR ==
    /\ isAuthenticated
    /\ step = 1
    /\ ~isLoadingOcr
    /\ IF file = null
       THEN /\ error' = Some("Please select or drop a PDF file first.")
            /\ UNCHANGED <<markdownProposal, isLoadingOcr, handler>>
       ELSE /\ isLoadingOcr' = TRUE
            /\ error' = null
            /\ markdownProposal' = <<>>
            /\ handler' = [at |-> "ocr", assessmentGuidelines |-> <<>>]
    /\ UNCHANGED <<step, file, isLoadingFeedback, isLoadingPapers, tokenUsage, aiReasoning,
                   assessmentGuidelines, recommendedPapers, searchQuery>>
    /\ UNCHANGED <<feedback, memoVars, papersVars, authVars>>

(* handleUploadAndOCR from the answer of the OCR route to its end *)
OcrResponse ==
    /\ handler.at = "ocr"
    /\ \E outcome \in {"ok", "error", "rejected"} :
          IF outcome = "ok"
          THEN \E markdown \in OcrDocuments :
                  /\ markdownProposal' = markdown
                  /\ step' = 2
                  /\ UNCHANGED error
          ELSE /\ error' = Some("Failed to process PDF")
               /\ markdownProposal' = <<>>
               /\ UNCHANGED step
    /\ isLoadingOcr' = FALSE
    /\ handler' = Idle
    /\ UNCHANGED <<file, isLoadingFeedback, isLoadingPapers, tokenUsage, aiReasoning,
                   assessmentGuidelines, recommendedPapers, searchQuery>>
    /\ UNCHANGED <<feedback, memoVars, papersVars, authVars>>

handleGuidelinesChange ==
    /\ isAuthenticated
    /\ step = 2
    /\ \E value \in GuidelineInputs : assessmentGuidelines' = value
    /\ UNCHANGED <<step, file, error, isLoadingOcr, isLoadingFeedback, isLoadingPapers, tokenUsage,
                   aiReasoning, recommendedPapers, searchQuery, handler>>
    /\ UNCHANGED <<pageVars, papersVars, authVars>>

(* handleGetFeedback up to its first await *)
handleGetFeedback ==
    /\ isAuthenticated
    /\ step = 2
    /\ ~isLoadingFeedback
    /\ ~isLoadingPapers
    /\ IF ~Truthy(markdownProposal)
       THEN /\ error' = Some("Document text is missing. Please go back to step 1.")
            /\ UNCHANGED <<isLoadingPapers, recommendedPapers, searchQuery, handler>>
       ELSE IF ~Truthy(trim(assessmentGuidelines))
       THEN /\ error' = Some("Please enter assessment guidelines.")
            /\ UNCHANGED <<isLoadingPapers, recommendedPapers, searchQuery, handler>>
       ELSE /\ isLoadingPapers' = TRUE
            /\ recommendedPapers' = <<>>
            /\ searchQuery' = <<>>
            /\ error' = null
            /\ handler' = [at |-> "terms", assessmentGuidelines |-> assessmentGuidelines]
    /\ UNCHANGED <<step, file, isLoadingOcr, isLoadingFeedback, tokenUsage, aiReasoning,
                   assessmentGuidelines>>
    /\ UNCHANGED <<pageVars, papersVars, authVars>>

(* handleGetFeedback from the finally of the paper part to the await of the
   feedback request, which does not set the loading flag of the papers *)
SendFeedbackRequestWhileLoadingPapers ==
    /\ UNCHANGED isLoadingPapers
    /\ isLoadingFeedback' = TRUE
    /\ feedback' = null
    /\ tokenUsage' = null
    /\ aiReasoning' = null
    /\ request' = [from |-> "page",
                   options |-> JsonHeaders,
                   hasWindow |-> TRUE,
                   headers |-> JsonHeaders,
                   body |-> [markdownProposal |-> markdownProposal,
                             assessmentGuidelines |-> handler.assessmentGuidelines]]
    /\ response' = null
    /\ apiKeyUsed' = null
    /\ handler' = [handler EXCEPT !.at = "feedback"]
    /\ UNCHANGED <<step, file, error, isLoadingOcr, assessmentGuidelines>>
    /\ UNCHANGED <<markdownProposal, memoVars, papersVars>>
    /\ UNCHANGED <<localStorage, isAuthenticated, authError, env>>

(* handleGetFeedback from the finally of the paper part to the await of the
   feedback request *)
SendFeedbackRequest ==
    /\ isLoadingPapers' = FALSE
    /\ isLoadingFeedback' = TRUE
    /\ feedback' = null
    /\ tokenUsage' = null
    /\ aiReasoning' = null
    /\ request' = [from |-> "page",
                   options |-> JsonHeaders,
                   hasWindow |-> TRUE,
                   headers |-> JsonHeaders,
                   body |-> [markdownProposal |-> markdownProposal,
                             assessmentGuidelines |-> handler.assessmentGuidelines]]
    /\ response' = null
    /\ apiKeyUsed' = null
    /\ handler' = [handler EXCEPT !.at = "feedback"]
    /\ UNCHANGED <<step, file, error, isLoadingOcr, assessmentGuidelines>>
    /\ UNCHANGED <<markdownProposal, memoVars, papersVars>>
    /\ UNCHANGED <<localStorage, isAuthenticated, authError, env>>

(* handleGetFeedback from the answer of the search-terms route on *)
SearchTermsResponse ==
    /\ handler.at = "terms"
    /\ \E outcome \in {"terms", "empty", "error", "rejected"} :
          IF outcome = "terms"
          THEN /\ handler' = [handler EXCEPT !.at = "papers"]
               /\ UNCHANGED <<feedback, request, response, apiKeyUsed, isLoadingPapers,
                              isLoadingFeedback, tokenUsage, aiReasoning>>
               /\ UNCHANGED <<step, file, error, isLoadingOcr, assessmentGuidelines>>
               /\ UNCHANGED <<markdownProposal, memoVars, papersVars>>
               /\ UNCHANGED <<localStorage, isAuthenticated, authError, env>>
          ELSE SendFeedbackRequest
    /\ UNCHANGED <<recommendedPapers, searchQuery>>

(* handleGetFeedback from the answer of the paper search on *)
PapersResponse ==
    /\ handler.at = "papers"
    /\ \E outcome \in {"ok", "error", "rejected"} :
          IF outcome = "ok"
          THEN \E papers \in {<<>>, <<"paper">>} :
                  /\ recommendedPapers' = papers
                  /\ searchQuery' = QueryPeerReview
          ELSE UNCHANGED <<recommendedPapers, searchQuery>>
    /\ SendFeedbackRequest

(* an end of handleGetFeedback that goes to step 3 after a failure as well *)
FeedbackResponseAlwaysStepThree ==
    /\ handler.at = "feedback"
    /\ \E rejected \in BOOLEAN :
          /\ ~rejected => response # null
          /\ IF ~rejected /\ response.ok
             THEN /\ feedback' = response.feedback
                  /\ tokenUsage' = response.usage
                  /\ aiReasoning' = response.reasoning
                  /\ step' = 3
                  /\ UNCHANGED error
             ELSE /\ error' = Some("Failed to get feedback from AI")
                  /\ feedback' = null
                  /\ tokenUsage' = null
                  /\ aiReasoning' = null
                  /\ step' = 3
    /\ isLoadingFeedback' = FALSE
    /\ handler' = Idle
    /\ UNCHANGED <<file, isLoadingOcr, isLoadingPapers, assessmentGuidelines, recommendedPapers,
                   searchQuery>>
    /\ UNCHANGED <<markdownProposal, memoVars, papersVars, authVars>>

(* handleGetFeedback from the answer of the feedback route to its end *)
FeedbackResponse ==
    /\ handler.at = "feedback"
    /\ \E rejected \in BOOLEAN :
          /\ ~rejected => response # null
          /\ IF ~rejected /\ response.ok
             THEN /\ feedback' = response.feedback
                  /\ tokenUsage' = response.usage
                  /\ aiReasoning' = response.reasoning
                  /\ step' = 3
                  /\ UNCHANGED error
             ELSE /\ error' = Some("Failed to get feedback from AI")
                  /\ feedback' = null
                  /\ tokenUsage' = null
                  /\ aiReasoning' = null
                  /\ UNCHANGED step
    /\ isLoadingFeedback' = FALSE
    /\ handler' = Idle
    /\ UNCHANGED <<file, isLoadingOcr, isLoadingPapers, assessmentGuidelines, recommendedPapers,
                   searchQuery>>
    /\ UNCHANGED <<markdownProposal, memoVars, papersVars, authVars>>

(* the button Start New Feedback *)
StartNewFeedback ==
    /\ isAuthenticated
    /\ step = 3
    /\ feedback # null
    /\ step' = 1
    /\ error' = null
    /\ file' = null
    /\ markdownProposal' = <<>>
    /\ assessmentGuidelines' = <<>>
    /\ feedback' = null
    /\ tokenUsage' = null
    /\ aiReasoning' = null
    /\ UNCHANGED <<isLoadingOcr, isLoadingFeedback, isLoadingPapers, recommendedPapers,
                   searchQuery, handler>>
    /\ UNCHANGED <<memoVars, papersVars, authVars>>

NextSession ==
    \/ handleSubmit
    \/ fetchWithApiKey
    \/ FeedbackPOST
    \/ handleFileChange
    \/ handleUploadAndOCR
    \/ OcrResponse
    \/ handleGuidelinesChange
    \/ handleGetFeedback
    \/ SearchTermsResponse
    \/ PapersResponse
    \/ FeedbackResponse
    \/ StartNewFeedback

SpecSession == InitSession /\ [][NextSession]_vars

(* every fetch of handleGetFeedback settles *)
SpecSessionFair ==
    /\ SpecSession
    /\ WF_vars(SearchTermsResponse)
    /\ WF_vars(PapersResponse)
    /\ WF_vars(FeedbackPOST)
    /\ WF_vars(FeedbackResponse)

(* ---------------------------------------------------------------------- *)
(* Properties                                                             *)
(* ---------------------------------------------------------------------- *)

UnmatchedPrefix ==
    <<"u","n","m","a","t","c","h","e","d","-">>

(* anno.id.startsWith('unmatched-'), the test the sidebar uses *)
IsUnmatchedAnnotation(anno) == OccursAt(anno.id, UnmatchedPrefix, 0)

IsMatchedAnnotation(anno) == ~IsUnmatchedAnnotation(anno)

(* the positions in the list of the annotation made from input item i (1-based) *)
EntriesOf(i) == {k \in 1..Len(annotationData) : annotationData[k].feedback = i}

(* C1: every match result the matcher returns for the working text satisfies
   0 <= startIndex < endIndex <= haystack.length, the length of the raw haystack *)
C1_SpanValidity ==
    (pc = "apply" /\ match # null) =>
        /\ 0 <= match.startIndex
        /\ match.startIndex < match.endIndex
        /\ match.endIndex <= Len(processedHtml)

(* C2: for a non-empty document the returned list has exactly one entry for
   every item of the feedback list, duplicates of a quote included *)
C2_OneEntryPerItem ==
    (pc = "done" /\ Len(markdownProposal) > 0) =>
        /\ Len(annotationData) = Len(feedback.passages)
        /\ \A i \in 1..Len(feedback.passages) : Cardinality(EntriesOf(i)) = 1

(* C3: the annotation of the item at input index i carries the id assigned to
   index i at set-up, matched or not, and the ids of the list are distinct *)
C3_IdByInputIndex ==
    pc = "done" =>
        /\ \A k \in 1..Len(annotationData) :
              annotationData[k].id = AnnotationId(annotationData[k].feedback - 1)
        /\ \A j, k \in 1..Len(annotationData) :
              j # k => annotationData[j].id # annotationData[k].id

(* C4: the returned list is ascending by matched start index, every unmatched
   annotation follows every matched one, and the unmatched annotations keep
   their input order *)
C4_OrderInvariant ==
    pc = "done" =>
        \A j, k \in 1..Len(annotationData) :
            j < k =>
                LET a == annotationData[j]
                    b == annotationData[k]
                IN  /\ ~(IsUnmatchedAnnotation(a) /\ IsMatchedAnnotation(b))
                    /\ (IsMatchedAnnotation(a) /\ IsMatchedAnnotation(b))
                          => /\ a.startIndex.kind = "finite"
                             /\ b.startIndex.kind = "finite"
                             /\ a.startIndex.val <= b.startIndex.val
                    /\ (IsUnmatchedAnnotation(a) /\ IsUnmatchedAnnotation(b))
                          => a.feedback < b.feedback

(* a returned list of two matched annotations that the sort has exchanged: the
   one placed first, for the longer quote, lies later in the document *)
C4_Witness ==
    /\ pc = "done"
    /\ Len(annotationData) = 2
    /\ Len(matchedPassages) = 2
    /\ annotationData[1].id = matchedPassages[2].value.id
    /\ annotationData[2].id = matchedPassages[1].value.id
    /\ annotationData[1].startIndex.val < annotationData[2].startIndex.val

SpanTagStart ==
    <<"<","s","p","a","n"," ">>

OpenTags(text) == {i \in 0..Len(text) : OccursAt(text, SpanTagStart, i)}

CloseTags(text) == {i \in 0..Len(text) : OccursAt(text, SpanClose, i)}

(* the tags of the text alternate opening, closing, opening, closing, and the
   opening tag of every id placed stands whole in the text *)
RegionsDisjoint(text) ==
    LET opens  == OpenTags(text)
        closes == CloseTags(text)
        tags   == opens \cup closes
    IN  /\ Cardinality(opens) = Cardinality(closes)
        /\ \A i \in tags : (i \in opens) <=> (Cardinality({j \in tags : j < i}) % 2 = 0)
        /\ \A id \in appliedAnnotations :
              indexOf(text, SpanOpen(id, activeAnnotationId)) >= 0

(* C5: after any sequence of placements the marked regions of the working text
   are pairwise disjoint and none starts or ends inside inserted markup *)
C5_NonOverlapping ==
    pc \in {"match", "apply", "sidebar"} => RegionsDisjoint(processedHtml)

(* "quick" *)
WordQuick ==
    <<"q","u","i","c","k">>

(* C6: on the example document the quote "quick brown fox jumps over the lazy
   dog" is matched with confidence >= 0.7 at the offset of "quick", and its
   annotation is matched *)
C6_ExampleMatched ==
    /\ (/\ pc = "apply"
        /\ processedHtml = FoxDocument
        /\ CurrentQuote = QuoteQuickToDog)
          => /\ Accepted(match)
             /\ match.startIndex = indexOf(FoxDocument, WordQuick)
    /\ (pc = "done" /\ markdownProposal = FoxDocument)
          => \A k \in 1..Len(annotationData) :
                annotationData[k].quote = QuoteQuickToDog => IsMatchedAnnotation(annotationData[k])

(* C7: a quote of raw length below 10 gets no match whatever the haystack, its
   attempt changes neither the working text nor the matched map, and its item
   is returned as an unmatched annotation *)
C7_ShortQuoteUnmatched ==
    /\ [](/\ (pc = "apply" /\ Len(CurrentQuote) < MinQuoteLength) => match = null
          /\ pc = "done" =>
                \A i \in 1..Len(feedback.passages) :
                    (Len(markdownProposal) > 0 /\ Len(Quote(feedback.passages[i])) < MinQuoteLength)
                        => \E k \in EntriesOf(i) :
                              /\ IsUnmatchedAnnotation(annotationData[k])
                              /\ annotationData[k].startIndex = Infinity)
    /\ [][(pc = "apply" /\ Len(CurrentQuote) < MinQuoteLength)
            => /\ processedHtml' = processedHtml
               /\ matchedPassages' = matchedPassages
               /\ appliedAnnotations' = appliedAnnotations]_vars

(* a short quote whose only word occurs in the document, tried against a
   working text that already carries markup *)
C7_Witness ==
    /\ pc = "apply"
    /\ CurrentQuote = QuoteRiverbank
    /\ appliedAnnotations # {}
    /\ indexOf(normalizeText(processedHtml), QuoteRiverbank) >= 0

ChunkFound(needleNormalized, haystackNormalized) ==
    LET chunks == Chunks(needleNormalized)
    IN  /\ Len(needleNormalized) > ChunkThreshold
        /\ \E c \in 1..3 : \E i \in 0..Len(haystackNormalized) :
              OccursAt(haystackNormalized, chunks[c], i)

WindowFound(needle, haystackNormalized) ==
    LET words == Words(needle)
    IN  \E i \in 0..(Len(words) - WindowSize) :
            LET atoms == CompileRegExp(WordSeqSource(words, i))
            IN  \E p \in 0..Len(haystackNormalized) : MatchesFrom(atoms, 1, haystackNormalized, p)

WordFound(needle, haystackNormalized) ==
    LET words == Words(needle)
    IN  \E k \in 1..Len(words) :
            /\ Len(words[k]) > MinSignificantLength
            /\ LET escapedWord == escapeRegExp(toLowerCase(words[k]))
               IN  \E i \in 0..Len(haystackNormalized) :
                      OccursAt(haystackNormalized, escapedWord, i)

(* C8: the strategies are tried in the order chunk, word sequence, single
   word; the result is that of the first that succeeds, and its confidence
   is 0.9, 0.85 or 0.7 according to that strategy *)
C8_StrategyOrder ==
    pc = "apply" =>
        LET needle             == CurrentQuote
            needleNormalized   == normalizeText(needle)
            haystackNormalized == normalizeText(processedHtml)
        IN  IF Len(needle) < MinQuoteLength THEN match = null
            ELSE IF ChunkFound(needleNormalized, haystackNormalized)
                 THEN match # null /\ match.similarity = ChunkSimilarity
            ELSE IF WindowFound(needle, haystackNormalized)
                 THEN match # null /\ match.similarity = SequenceSimilarity
            ELSE IF WordFound(needle, haystackNormalized)
                 THEN match # null /\ match.similarity = WordSimilarity
            ELSE match = null

(* a long quote whose chunks are all absent from the haystack and which the
   word-sequence strategy then matches *)
C8_Witness ==
    /\ pc = "apply"
    /\ Len(normalizeText(CurrentQuote)) > ChunkThreshold
    /\ ~ChunkFound(normalizeText(CurrentQuote), normalizeText(processedHtml))
    /\ match # null
    /\ match.similarity = SequenceSimilarity

RegionStart(text, id) == indexOf(text, SpanIdPrefix \o id \o <<"\"">>)

(* C10: matched annotations are listed in document order: of two matched
   annotations, the one listed first has the region that starts first *)
C10_DocumentOrder ==
    pc = "done" =>
        \A j, k \in 1..Len(annotationData) :
            (/\ j < k
             /\ IsMatchedAnnotation(annotationData[j])
             /\ IsMatchedAnnotation(annotationData[k]))
                => RegionStart(processedHtml, annotationData[j].id)
                      <= RegionStart(processedHtml, annotationData[k].id)

(* length of the normalized copy of the first p characters of text, that is
   the offset in the normalized copy at which the character at raw offset p
   begins *)
NormalizedOffset(text, p) == Len(normalizeText(SubSeq(text, 1, p) \o <<"x">>)) - 1

(* the raw offsets of text at which the character at offset q of the
   normalized copy begins: none inside the expansion of an ellipsis glyph *)
RawOffsets(text, q) ==
    {p \in 0..Len(text) :
        /\ NormalizedOffset(text, p) = q
        /\ \A r \in (p + 1)..Len(text) : NormalizedOffset(text, r) # q}

(* offset in the normalized haystack of the first word window that matches,
   -1 when none does *)
FirstWindowIndex(needle, haystackNormalized) ==
    LET words == Words(needle)
        index == [i \in 0..(Len(words) - WindowSize) |->
                     matchIndex(haystackNormalized, CompileRegExp(WordSeqSource(words, i)))]
        hits  == {i \in DOMAIN index : index[i] >= 0}
    IN  IF hits = {} THEN -1 ELSE index[CHOOSE i \in hits : \A j \in hits : i <= j]

(* offset in the normalized haystack of the first significant word the
   single-word strategy finds, -1 when it finds none *)
FirstWordIndex(needle, haystackNormalized) ==
    LET significantWords == SignificantWords(needle)
        idx  == [k \in 1..Len(significantWords) |->
                    indexOf(haystackNormalized, escapeRegExp(toLowerCase(significantWords[k])))]
        hits == {k \in DOMAIN idx : idx[k] >= 0}
    IN  IF hits = {} THEN -1 ELSE idx[CHOOSE k \in hits : \A j \in hits : k <= j]

(* the start index the strategy that found the quote computes when the found
   chunk, window or word begins at offset p *)
StrategyStart(needle, haystackNormalized, similarity, p) ==
    LET needleNormalized == normalizeText(needle)
        n          == Len(needleNormalized)
        chunks     == Chunks(needleNormalized)
        firstChunk == ChunkLocations(chunks, haystackNormalized)[1]
    IN  IF similarity = ChunkSimilarity
        THEN IF firstChunk.chunk = chunks[1] THEN p
             ELSE IF firstChunk.chunk = chunks[2] THEN Max(0, p - (n \div 2) + HalfChunkLength)
             ELSE Max(0, p - n + ChunkLength)
        ELSE IF similarity = SequenceSimilarity THEN Max(0, p - SequencePadding)
        ELSE Max(0, p - WordPadding)

(* offset in the normalized haystack of what the successful strategy found *)
FoundIndex(needle, haystackNormalized, similarity) ==
    IF similarity = ChunkSimilarity
    THEN ChunkLocations(Chunks(normalizeText(needle)), haystackNormalized)[1].idx
    ELSE IF similarity = SequenceSimilarity THEN FirstWindowIndex(needle, haystackNormalized)
    ELSE FirstWordIndex(needle, haystackNormalized)

(* C11: the start index recorded for a matched annotation is an offset into
   the unmodified document: when the chunk, word window or word found begins
   at raw offset p of the document, the recorded start is the start the
   strategy computes from p *)
C11_RawStartIndex ==
    \A k \in 1..Len(matchedPassages) :
        LET quote              == matchedPassages[k].key
            originalMatch      == findBestSubstringMatch(quote, markdownProposal)
            haystackNormalized == normalizeText(markdownProposal)
        IN  originalMatch # null =>
                \A p \in RawOffsets(markdownProposal,
                                    FoundIndex(quote, haystackNormalized, originalMatch.similarity)) :
                    matchedPassages[k].value.startIndex
                        = StrategyStart(quote, haystackNormalized, originalMatch.similarity, p)


(* the quote has a word window with a regular-expression metacharacter in it *)
HasMetaCharWindow(needle) ==
    LET words == Words(needle)
    IN  \E i \in 0..(Len(words) - WindowSize) : \E k \in (i + 1)..(i + WindowSize) :
            \E j \in 1..Len(words[k]) : words[k][j] \in RegExpMetaChars

(* C12: for any quote, quotes with regular-expression metacharacters
   included, findBestSubstringMatch does not throw: no pattern it builds from
   a word window is rejected by new RegExp, so no window is given up on an
   error, and the result is none or a match of one of the three strategies *)
C12_NoThrow ==
    pc = "apply" =>
        LET words == Words(CurrentQuote)
        IN  /\ \A i \in 0..(Len(words) - WindowSize) : ~IsMalformedRegExp(WordSeqSource(words, i))
            /\ \/ match = null
               \/ match.similarity \in {ChunkSimilarity, SequenceSimilarity, WordSimilarity}

(* a quote whose words carry parentheses and asterisks, matched by a word
   window that contains them *)
C12_Witness ==
    /\ pc = "apply"
    /\ HasMetaCharWindow(CurrentQuote)
    /\ match # null
    /\ match.similarity = SequenceSimilarity


(* C13: with an empty feedback list, or with an empty document, the callback
   returns the document unchanged (the empty text for an empty document) and
   an empty annotation list *)
C13_EmptyInput ==
    (pc = "done" /\ (Len(markdownProposal) = 0 \/ Len(feedback.passages) = 0)) =>
        /\ annotatedProposalHtml = markdownProposal
        /\ annotationData = <<>>
        /\ appliedAnnotations = {}

(* the callback has returned for an empty document and a feedback list that
   is not empty *)
C13_Witness ==
    /\ pc = "done"
    /\ Len(markdownProposal) = 0
    /\ Len(feedback.passages) > 0


UpperChar(c) ==
    IF \E u \in DOMAIN LowerOf : LowerOf[u] = c
    THEN CHOOSE u \in DOMAIN LowerOf : LowerOf[u] = c
    ELSE c

(* the text in capital letters *)
toUpperCase(text) == [i \in 1..Len(text) |-> UpperChar(text[i])]

(* the text with its straight quotes and hyphens replaced by the given glyphs *)
Curl(text, single, double, dash) ==
    [i \in 1..Len(text) |->
        CASE text[i] = "'"  -> single
          [] text[i] = "\"" -> double
          [] text[i] = "-"  -> dash
          [] OTHER -> text[i]]

(* the text with its curly quotes and dashes replaced by the straight ones *)
Straighten(text) ==
    [i \in 1..Len(text) |->
        CASE text[i] \in {"LSQUO", "RSQUO"} -> "'"
          [] text[i] \in {"LDQUO", "RDQUO"} -> "\""
          [] text[i] \in {"NDASH", "MDASH"} -> "-"
          [] OTHER -> text[i]]

(* the text with every three periods in a row written as the ellipsis glyph *)
RECURSIVE ContractEllipsis(_)
ContractEllipsis(text) ==
    IF Len(text) = 0 THEN <<>>
    ELSE IF Len(text) >= 3 /\ SubSeq(text, 1, 3) = <<".", ".", ".">>
         THEN <<"HELLIP">> \o ContractEllipsis(SubSeq(text, 4, Len(text)))
    ELSE <<text[1]>> \o ContractEllipsis(Tail(text))

(* the text with the ellipsis glyph written as three periods *)
ExpandEllipsis(text) ==
    Flatten([i \in 1..Len(text) |->
                IF text[i] = "HELLIP" THEN <<".", ".", ".">> ELSE <<text[i]>>])

(* the text with every whitespace character made a run of three, and with
   whitespace put before and after it *)
StretchWhitespace(text) ==
    <<"\n", " ">> \o
    Flatten([i \in 1..Len(text) |->
                IF IsWhitespace(text[i]) THEN <<"\t", text[i], "\n">> ELSE <<text[i]>>]) \o
    <<" ", "\r">>

(* texts that differ from text only in case, in curly against straight
   quotes, in dashes against hyphens, in the ellipsis glyph against three
   periods, in the length of whitespace runs and in whitespace at the ends *)
Variants(text) ==
    { toUpperCase(text),
      Curl(text, "LSQUO", "LDQUO", "NDASH"),
      Curl(text, "RSQUO", "RDQUO", "MDASH"),
      Straighten(text),
      ContractEllipsis(text),
      ExpandEllipsis(text),
      StretchWhitespace(text),
      StretchWhitespace(ContractEllipsis(Curl(toUpperCase(text), "RSQUO", "LDQUO", "MDASH"))) }

(* C14: normalizeText gives the same string for texts that differ only in
   case, curly or straight quotes, dash or hyphen, ellipsis glyph or three
   periods, length of whitespace runs and whitespace at the ends; the empty
   text and a text of whitespace give the empty string *)
C14_NormalizeEquivalence ==
    /\ normalizeText(<<>>) = <<>>
    /\ normalizeText(StretchWhitespace(<<>>)) = <<>>
    /\ pc = "apply" =>
          \A text \in {CurrentQuote, markdownProposal} :
              \A variant \in Variants(text) : normalizeText(variant) = normalizeText(text)

(* the matcher has normalized a document with curly quotes, a dash, an
   ellipsis glyph and leading whitespace, and a quote with the straight forms *)
C14_Witness ==
    /\ pc = "apply"
    /\ markdownProposal = PilotDocument
    /\ CurrentQuote = QuotePilotPlain
    /\ \A variant \in Variants(CurrentQuote) \ {Straighten(CurrentQuote), ExpandEllipsis(CurrentQuote)} :
          variant # CurrentQuote
    /\ Straighten(markdownProposal) # markdownProposal
    /\ ExpandEllipsis(markdownProposal) # markdownProposal


(* date a is the same as or later than date b: ISO dates compare as their
   characters do, and a missing date counts as the oldest *)
RECURSIVE DateNotBefore(_, _)
DateNotBefore(a, b) ==
    IF Len(b) = 0 THEN TRUE
    ELSE IF Len(a) = 0 THEN FALSE
    ELSE IF a[1] # b[1] THEN DigitValue(a[1]) > DigitValue(b[1])
    ELSE DateNotBefore(Tail(a), Tail(b))

(* C15: the paper search endpoint returns at most 4 papers, ordered by
   descending citation count, papers with the same count ordered most recent
   publication date first *)
C15_TopFourByCitations ==
    (papersResponse # null /\ papersResponse.status = 200) =>
        LET papers == papersResponse.papers
        IN  /\ Len(papers) <= 4
            /\ \A j, k \in 1..Len(papers) :
                  j < k =>
                     /\ papers[j].citationCount >= papers[k].citationCount
                     /\ papers[j].citationCount = papers[k].citationCount
                           => DateNotBefore(papers[j].publicationDate, papers[k].publicationDate)

(* OpenAlex returned five works that pass the filter: two with the same
   citation count, the older one first, then two without citations, the one
   without a date first, and the most cited one last; the response has the
   most cited one first and leaves out the one without a date *)
C15_Witness ==
    /\ papersResponse # null
    /\ papersResponse.status = 200
    /\ openAlex # null
    /\ Len(openAlex.results) = 5
    /\ \A k \in 1..5 : IsGoodPaper(FormatPaper(openAlex.results[k]))
    /\ openAlex.results[1].id = <<"W1">>
    /\ openAlex.results[2].id = <<"W2">>
    /\ openAlex.results[3].id = <<"W3">>
    /\ openAlex.results[5].id = <<"W4">>
    /\ Len(papersResponse.papers) = 4
    /\ papersResponse.papers[1].paperId = <<"W4">>
    /\ papersResponse.papers[2].paperId = <<"W2">>
    /\ papersResponse.papers[3].paperId = <<"W1">>
    /\ papersResponse.papers[4].paperId = <<"W7">>


(* a word of the quote longer than 5 characters occurs, in lower case and as
   it is written, in the normalized haystack *)
PlainWordFound(needle, haystackNormalized) ==
    LET words == Words(needle)
    IN  \E k \in 1..Len(words) :
            /\ Len(words[k]) > MinSignificantLength
            /\ indexOf(haystackNormalized, toLowerCase(words[k])) >= 0

(* C16: no placement match comes from the text of markup inserted before: an
   item recorded as matched has a chunk, a window of three words or a long
   word that occurs in the document itself *)
C16_NoMatchInMarkup ==
    \A k \in 1..Len(matchedPassages) :
        LET quote              == matchedPassages[k].key
            needleNormalized   == normalizeText(quote)
            haystackNormalized == normalizeText(markdownProposal)
        IN  \/ ChunkFound(needleNormalized, haystackNormalized)
            \/ WindowFound(quote, haystackNormalized)
            \/ PlainWordFound(quote, haystackNormalized)


(* offset in the normalized haystack of the first significant word, longest
   first, that occurs there in lower case and as it is written; -1 when none
   of them occurs *)
FirstPlainWordIndex(needle, haystackNormalized) ==
    LET significantWords == SignificantWords(needle)
        idx  == [k \in 1..Len(significantWords) |->
                    indexOf(haystackNormalized, toLowerCase(significantWords[k]))]
        hits == {k \in DOMAIN idx : idx[k] >= 0}
    IN  IF hits = {} THEN -1 ELSE idx[CHOOSE k \in hits : \A j \in hits : k <= j]

(* C17: when the single-word fallback is reached, the words of the raw quote
   longer than 5 characters are tried longest first by a plain search of the
   word in lower case in the normalized haystack, and the first that occurs
   gives the match, words with regular-expression metacharacters included *)
C17_SingleWordPlainSearch ==
    pc = "apply" =>
        LET needle             == CurrentQuote
            needleNormalized   == normalizeText(needle)
            haystackNormalized == normalizeText(processedHtml)
            idx                == FirstPlainWordIndex(needle, haystackNormalized)
        IN  (/\ Len(needle) >= MinQuoteLength
             /\ ~ChunkFound(needleNormalized, haystackNormalized)
             /\ ~WindowFound(needle, haystackNormalized))
                => IF idx >= 0
                   THEN /\ match # null
                        /\ match.similarity = WordSimilarity
                        /\ match.startIndex = Max(0, idx - WordPadding)
                   ELSE match = null


(* the first position of pat in text, -1 when it does not occur *)
FirstPosition(text, pat) ==
    LET hits == {i \in 0..Len(text) : OccursAt(text, pat, i)}
    IN  IF hits = {} THEN -1 ELSE CHOOSE i \in hits : \A j \in hits : i <= j

(* the region start back-computed from chunk c (1 start, 2 middle, 3 end)
   found at position p, for a normalized quote of length n *)
BackComputedStart(c, p, n) ==
    CASE c = 1 -> Max(0, p)
      [] c = 2 -> Max(0, p - ((n \div 2) - 15))
      [] c = 3 -> Max(0, p - (n - 30))

(* C18: for a normalized quote of length n > 50 the chunk found at the
   smallest position of the normalized haystack is selected, the region start
   is back-computed from which chunk it is, clamped to >= 0, and the region
   end is start + quote length + 20, clamped to the haystack length; without
   a chunk found the chunk strategy gives no result *)
C18_ChunkSelection ==
    (pc = "apply" /\ Len(CurrentQuote) >= MinQuoteLength) =>
        LET needleNormalized   == normalizeText(CurrentQuote)
            haystackNormalized == normalizeText(processedHtml)
            n      == Len(needleNormalized)
            chunks == Chunks(needleNormalized)
            pos    == [c \in 1..3 |-> FirstPosition(haystackNormalized, chunks[c])]
            found  == {c \in 1..3 : pos[c] >= 0}
        IN  IF n > 50 /\ found # {}
            THEN /\ match # null
                 /\ match.similarity = ChunkSimilarity
                 /\ \E c \in found :
                       /\ \A d \in found : pos[c] <= pos[d]
                       /\ match.startIndex = BackComputedStart(c, pos[c], n)
                 /\ match.endIndex
                       = Min(Len(processedHtml), match.startIndex + Len(CurrentQuote) + 20)
            ELSE match = null \/ match.similarity # ChunkSimilarity

(* the start chunk and the end chunk of the quote are both found and the end
   chunk comes first in the haystack, so the start is computed from it *)
C18_Witness ==
    /\ pc = "apply"
    /\ Len(normalizeText(CurrentQuote)) > ChunkThreshold
    /\ LET chunks == Chunks(normalizeText(CurrentQuote))
           haystackNormalized == normalizeText(processedHtml)
       IN  /\ FirstPosition(haystackNormalized, chunks[1]) > 0
           /\ FirstPosition(haystackNormalized, chunks[3]) >= 0
           /\ FirstPosition(haystackNormalized, chunks[3])
                 < FirstPosition(haystackNormalized, chunks[1])
    /\ match # null
    /\ match.similarity = ChunkSimilarity


(* the three words of the window starting at word i (0-based), in lower case
   and separated by single spaces *)
WindowText(words, i) ==
    toLowerCase(words[i + 1]) \o <<" ">> \o toLowerCase(words[i + 2]) \o <<" ">>
        \o toLowerCase(words[i + 3])

(* C19: when the chunk strategy gives nothing, the words of the raw quote
   longer than 3 characters are taken in order; with at least 3 of them, the
   windows of 3 consecutive words are tried from the first on, without case
   and with any whitespace between the words, against the normalized
   haystack, and the first window that matches gives the result; with fewer
   than 3 words, or no window that matches, the strategy gives no result *)
C19_WordSequence ==
    (pc = "apply" /\ Len(CurrentQuote) >= MinQuoteLength) =>
        LET needle             == CurrentQuote
            needleNormalized   == normalizeText(needle)
            haystackNormalized == normalizeText(processedHtml)
            words   == Words(needle)
            pos     == [i \in 0..(Len(words) - 3) |->
                           FirstPosition(haystackNormalized, WindowText(words, i))]
            matches == {i \in DOMAIN pos : pos[i] >= 0}
            first   == CHOOSE i \in matches : \A j \in matches : i <= j
        IN  ~ChunkFound(needleNormalized, haystackNormalized) =>
                IF Len(words) >= 3 /\ matches # {}
                THEN /\ match # null
                     /\ match.similarity = SequenceSimilarity
                     /\ match.startIndex = Max(0, pos[first] - 20)
                     /\ match.endIndex
                           = Min(Len(haystackNormalized), pos[first] + Len(needle) + 20)
                ELSE match = null \/ match.similarity # SequenceSimilarity

(* a quote of six long words whose first two windows are not in the haystack
   and whose third window is *)
C19_Witness ==
    /\ pc = "apply"
    /\ LET words == Words(CurrentQuote)
           haystackNormalized == normalizeText(processedHtml)
       IN  /\ Len(words) >= 5
           /\ FirstPosition(haystackNormalized, WindowText(words, 0)) < 0
           /\ FirstPosition(haystackNormalized, WindowText(words, 1)) < 0
           /\ FirstPosition(haystackNormalized, WindowText(words, 2)) >= 0
    /\ match # null
    /\ match.similarity = SequenceSimilarity


(* C20: placements are attempted in non-increasing order of raw quote
   length: when an item is matched against the working text, every item with
   a strictly longer quote has been attempted before and, if it matched, its
   region is marked in the working text *)
C20_LongestFirst ==
    (pc \in {"match", "apply"} /\ loopIndex <= Len(sortedPassages)) =>
        \A i \in 1..Len(feedback.passages) :
            LET passage == feedback.passages[i]
            IN  Len(Quote(passage)) > Len(CurrentQuote) =>
                    /\ \E j \in 1..(loopIndex - 1) : sortedPassages[j] = passage
                    /\ \A k \in 1..Len(matchedPassages) :
                          matchedPassages[k].key = Quote(passage) =>
                              /\ matchedPassages[k].value.id \in appliedAnnotations
                              /\ RegionStart(processedHtml, matchedPassages[k].value.id) >= 0

(* the second attempt of a run, for the item listed first in the feedback
   list, after the longer quote of the item listed second was placed *)
C20_Witness ==
    /\ pc = "apply"
    /\ loopIndex = 2
    /\ Len(feedback.passages) = 2
    /\ sortedPassages[2] = feedback.passages[1]
    /\ Len(Quote(feedback.passages[2])) > Len(CurrentQuote)
    /\ MapHas(matchedPassages, Quote(feedback.passages[2]))


(* C21: an item whose placement attempt fails leaves the working text as it
   was and is recorded as unmatched: at the failed attempt its quote is not
   in the matched map, and the returned list has an unmatched annotation for
   every item whose quote is not in the map *)
C21_FailedAttempt ==
    /\ [][(pc = "apply" /\ ~Accepted(match)) => processedHtml' = processedHtml]_vars
    /\ []((pc = "apply" /\ ~Accepted(match))
             => IsUnmatchedIn(matchedPassages, sortedPassages[loopIndex]))
    /\ [](pc = "done" =>
             \A i \in 1..Len(feedback.passages) :
                 (Len(markdownProposal) > 0 /\ IsUnmatchedIn(matchedPassages, feedback.passages[i]))
                     => \E k \in EntriesOf(i) : IsUnmatchedAnnotation(annotationData[k]))


(* the quotes in the matched map that the matcher does not find in the document *)
PlacedWithoutOriginal ==
    {k \in 1..Len(matchedPassages) :
        findBestSubstringMatch(matchedPassages[k].key, markdownProposal) = null}

(* C22: when the match against the working text succeeds and the lookup of
   the quote in the original document gives none, the item is recorded as
   matched with start index -1 and its span is inserted; the span stays and
   the returned list has the item as matched with sort key -1 *)
C22_FallbackStartIndex ==
    /\ [][(/\ pc = "apply"
           /\ Accepted(match)
           /\ findBestSubstringMatch(CurrentQuote, markdownProposal) = null)
             => /\ \E k \in 1..Len(matchedPassages') :
                      /\ matchedPassages'[k].key = CurrentQuote
                      /\ matchedPassages'[k].value.startIndex = -1
                      /\ matchedPassages'[k].value.id = passageMap[CurrentQuote].id
                /\ RegionStart(processedHtml', passageMap[CurrentQuote].id) >= 0
                /\ Len(processedHtml') > Len(processedHtml)]_vars
    /\ [](\A k \in PlacedWithoutOriginal :
             /\ matchedPassages[k].value.startIndex = -1
             /\ RegionStart(processedHtml, matchedPassages[k].value.id) >= 0
             /\ pc = "done" =>
                   \E j \in 1..Len(annotationData) :
                       /\ annotationData[j].id = matchedPassages[k].value.id
                       /\ IsMatchedAnnotation(annotationData[j])
                       /\ annotationData[j].startIndex = Num(-1))

(* a run has returned a matched annotation for a quote that is found in the
   inserted markup only *)
C22_Witness ==
    /\ pc = "done"
    /\ PlacedWithoutOriginal # {}
    /\ \E j \in 1..Len(annotationData) :
          IsMatchedAnnotation(annotationData[j]) /\ annotationData[j].startIndex = Num(-1)


(* the request carries the method api_key and a key header *)
CarriesApiKey(headers) ==
    headers.xAuthMethod = Some("api_key") /\ headers.xGeminiApiKey # null

(* C23: a user's key is used under the method api_key only: a call of
   fetchWithApiKey sets the header x-gemini-api-key to the stored key when
   the stored method is api_key and a key is stored, and leaves the header as
   the caller gave it in every other case; the feedback route takes the key
   of the request only when the request carries the method api_key and a key
   header, does take it when that key is not empty, and takes the
   environment key (or fails without one) in every other case *)
C23_KeyOnlyUnderApiKeyMethod ==
    /\ [][(request' # request /\ request'.from = "fetchWithApiKey")
             => LET method == getItem(request'.hasWindow, "authMethod")
                    key    == getItem(request'.hasWindow, "geminiApiKey")
                IN  IF method = Some("api_key") /\ key # null
                    THEN request'.headers.xGeminiApiKey = key
                    ELSE request'.headers.xGeminiApiKey = request'.options.xGeminiApiKey]_vars
    /\ [](response # null =>
             /\ (apiKeyUsed # null /\ apiKeyUsed # env) =>
                    (CarriesApiKey(request.headers) /\ apiKeyUsed = request.headers.xGeminiApiKey)
             /\ (CarriesApiKey(request.headers) /\ Truthy(request.headers.xGeminiApiKey.value))
                    => apiKeyUsed = request.headers.xGeminiApiKey
             /\ ~CarriesApiKey(request.headers) => apiKeyUsed = env)

(* the route has answered a request of fetchWithApiKey with the stored key
   of the user *)
C23_Witness ==
    /\ request # null
    /\ request.from = "fetchWithApiKey"
    /\ localStorage.geminiApiKey = Some(KeyUser)
    /\ request.options.xGeminiApiKey = null
    /\ request.headers.xGeminiApiKey = Some(KeyUser)
    /\ env = Some(KeyEnvironment)
    /\ apiKeyUsed = Some(KeyUser)

(* text is base with the opening tag of id inserted at offset from and the
   closing tag inserted at offset to, and nothing else changed *)
InsertsTags(text, base, id, from, to) ==
    text = substring(base, 0, from) \o SpanOpen(id, activeAnnotationId)
              \o substring(base, from, to) \o SpanClose \o substringFrom(base, to)

(* C24: placement only inserts markup. The loop starts from the document
   itself, and every placement leaves a working text from which the removal
   of the opening tag and the closing tag it has just inserted (at the two
   ends of the matched range, cut to the length of the text) gives the
   working text before it, character for character; a step that places
   nothing leaves the working text as it is. Removing the inserted tags in
   the reverse order of the placements therefore gives the document *)
C24_OnlyInsertsMarkup ==
    /\ []((pc = "match" /\ loopIndex = 1) => processedHtml = markdownProposal)
    /\ [][IF pc = "apply" /\ Accepted(match)
          THEN LET from == Min(match.startIndex, Len(processedHtml))
                   to   == Min(match.endIndex, Len(processedHtml))
               IN  /\ 0 <= from
                   /\ from <= to
                   /\ InsertsTags(processedHtml', processedHtml, passageMap[CurrentQuote].id,
                                  from, to)
          ELSE pc # "start" => processedHtml' = processedHtml]_vars

(* two placements have been made and the working text is longer than the
   document by the inserted tags *)
C24_Witness ==
    /\ pc = "sidebar"
    /\ Cardinality(appliedAnnotations) >= 2
    /\ Len(processedHtml) > Len(markdownProposal) + 2 * Len(SpanClose)

(* the offsets in the marked text of the opening tags that carry id *)
RegionsOf(text, id) ==
    {i \in 0..Len(text) : OccursAt(text, SpanIdPrefix \o id \o <<"\"">>, i)}

(* C25: at the end of a run every matched annotation's id tags exactly one
   region of the marked text, no unmatched annotation's id tags a region, and
   every region carries the id of a matched annotation of the list *)
C25_RegionsAndAnnotations ==
    pc = "done" =>
        /\ \A k \in 1..Len(annotationData) :
              IF IsMatchedAnnotation(annotationData[k])
              THEN Cardinality(RegionsOf(processedHtml, annotationData[k].id)) = 1
              ELSE RegionsOf(processedHtml, annotationData[k].id) = {}
        /\ \A i \in 0..(Len(feedback.passages) - 1) :
              RegionsOf(processedHtml, AnnotationId(i)) # {}
                  => \E k \in 1..Len(annotationData) :
                        /\ IsMatchedAnnotation(annotationData[k])
                        /\ annotationData[k].id = AnnotationId(i)

(* the quote with its straight apostrophes and double quotes written curly,
   and the quote with its hyphens written as dashes *)
CurlyVariants(quote) ==
    { Curl(quote, "RSQUO", "RDQUO", "-"),
      Curl(quote, "LSQUO", "LDQUO", "-"),
      Curl(quote, "'", "\"", "NDASH"),
      Curl(quote, "'", "\"", "MDASH") }

(* C26: for a quote of normalized length at most 50, writing its straight
   apostrophes and double quotes curly, or its hyphens as dashes, changes
   neither whether findBestSubstringMatch finds it in the working text nor
   the range returned *)
C26_CurlyQuoteSameMatch ==
    (pc = "apply" /\ Len(normalizeText(CurrentQuote)) <= ChunkThreshold) =>
        \A variant \in CurlyVariants(CurrentQuote) :
            findBestSubstringMatch(variant, processedHtml) = match

(* the ids that tag a region of the returned markup *)
RegionIds(text) ==
    {i \in 0..(Len(feedback.passages) - 1) : RegionsOf(text, AnnotationId(i)) # {}}

(* C27: the annotation list and the marked regions do not depend on
   activeAnnotationId: when a run on a document and a feedback list ends
   after an earlier run on the same two (with the same or another active
   annotation), it returns the annotation list of the earlier run, ids,
   matched flags, sort keys and order, and regions for the same ids *)
C27_ActiveIndependence ==
    [][(pc = "sidebar" /\ annotationData # <<>>)
          => /\ annotationData' = annotationData
             /\ RegionIds(annotatedProposalHtml') = RegionIds(annotatedProposalHtml)]_vars

(* C28: step 3 is shown with a feedback only; step goes from 1 to 2 at the
   end of an OCR request that succeeded, from 2 to 3 at the end of a feedback
   request that the route answered with ok, from 3 to 1 at the reset, and in
   no other way; an OCR request or a feedback request that ends without
   changing step has set the error message and cleared its result (the
   document text; the feedback, the token usage and the reasoning) *)
C28_StepDiscipline ==
    /\ [](step = 3 => feedback # null)
    /\ [][step' # step =>
             \/ /\ step = 1 /\ step' = 2
                /\ handler.at = "ocr" /\ handler' = Idle
                /\ error' = error
             \/ /\ step = 2 /\ step' = 3
                /\ handler.at = "feedback" /\ handler' = Idle
                /\ response # null /\ response.ok
                /\ feedback' = response.feedback
                /\ error' = error
             \/ /\ step = 3 /\ step' = 1
                /\ handler = Idle
                /\ feedback' = null /\ markdownProposal' = <<>>]_vars
    /\ [][(handler.at = "ocr" /\ handler' = Idle /\ step' = step)
             => (error' # null /\ markdownProposal' = <<>>)]_vars
    /\ [][(handler.at = "feedback" /\ handler' = Idle /\ step' = step)
             => (error' # null /\ feedback' = null /\ tokenUsage' = null /\ aiReasoning' = null)]_vars

(* the page is at step 3 with the feedback the route has returned *)
C28_Witness ==
    /\ step = 3
    /\ feedback # null
    /\ handler = Idle
    /\ response # null
    /\ response.ok
    /\ file # null
    /\ error = null

(* C29: whatever the search-terms request and the paper search give, the
   feedback request is sent afterwards, and when it is sent the page shows
   no error and isLoadingPapers is false *)
C29_FeedbackRequestAfterPapers ==
    /\ (handler.at \in {"terms", "papers"}) ~> (handler.at = "feedback")
    /\ [](handler.at = "feedback" =>
             /\ request # null
             /\ request.from = "page"
             /\ ~isLoadingPapers
             /\ isLoadingFeedback
             /\ error = null)
    /\ [][(handler.at \in {"terms", "papers"}) =>
             (handler'.at \in {"terms", "papers", "feedback"} /\ error' = null)]_vars

(* the feedback request of the page is in flight after a paper part that
   found no papers *)
C29_Witness ==
    /\ handler.at = "feedback"
    /\ request # null
    /\ request.from = "page"
    /\ response = null
    /\ recommendedPapers = <<>>
    /\ ~isLoadingPapers

(* C30: when the visitor passed the gate with a key of their own (stored
   method api_key and a stored key), the feedback request of the page
   carries x-auth-method and that key in x-gemini-api-key, and the route
   answers it with the visitor's key and not the environment key *)
C30_PageSendsUserKey ==
    (/\ request # null
     /\ request.from = "page"
     /\ localStorage.authMethod = Some("api_key")
     /\ localStorage.geminiApiKey # null)
        => /\ request.headers.xAuthMethod = Some("api_key")
           /\ request.headers.xGeminiApiKey = localStorage.geminiApiKey
           /\ response # null => apiKeyUsed = localStorage.geminiApiKey

=============================================================================
